---- MODULE Spec2Model ----
(***************************************************************************)
(* sacn-monitor: the statistics tracker (internal/stats/tracker.go), the   *)
(* universe state (internal/universe/universe.go) and its manager.         *)
(*                                                                         *)
(* The tracker is modelled as the map universeID -> UniverseStats, every   *)
(* handler as one atomic action (the sequential behaviour of the code).    *)
(* Time is the reading of time.Now(): a monotonic clock counted in ticks,  *)
(* TicksPerSecond ticks to the second.  float64 results are modelled by    *)
(* the exact quotient, kept as a reduced fraction <<num, den>>.            *)
(*                                                                         *)
(* Universe objects live at heap addresses; the manager's map holds the    *)
(* addresses, so that two calls returning the same instance can be told    *)
(* from two calls returning equal ones.                                    *)
(***************************************************************************)
EXTENDS Integers, Sequences, FiniteSets, TLC

\* ------------------------------------------------------------------ bounds

\* Resolution of the modelled clock.
TicksPerSecond == 2
\* Calls made on the tracker in one run, clock readings that moved included.
MaxCalls == 4
\* Packets of one run of the sequence-number specification.
MaxRun == 2
\* Data packets and clock readings of one run of a single universe.
MaxUpdates == 3
\* Calls made on the universe manager in one run, clock readings included.
MaxOps == 5
\* Calls the threads of one run make on the manager, all threads together.
MaxManagerCalls == 3
\* RecordPacket calls the threads of one run make, all threads together.
MaxRecordCalls == 4
\* Datagrams the socket delivers in one run of the receiver.
MaxDatagrams == 3
\* Packets the ingestion loop takes from the queue in one run.
MaxTakes == 2
\* RecordPacket calls two threads make for one universe, both together.
MaxSharedCalls == 3
\* The clock is advanced while it reads less than this.
MaxSharedClock == 1
\* Packets applied to the universes and the statistics around a query.
MaxApplied == 3
\* Start and Stop calls the threads of one run make, all threads together.
MaxStartCalls == 4
\* Stop calls made on a running receiver, all threads together.
MaxStopCalls == 2
\* Calls of any kind the threads of one run make on the manager, its
\* universes and the tracker, all threads together.
MaxLockCalls == 2

\* ------------------------------------------------------------------ inputs

UniverseIDs == {1, 2}
CIDs == {1, 2}
SourceNames == {"a", "b"}
\* Who transmits: <<universe, CID, source name>>.  Source 1 sends to both
\* universes and is renamed on universe 1, which source 2 shares with it.
Transmitters == {<<1, 1, "a">>, <<1, 1, "b">>, <<1, 2, "b">>, <<2, 1, "a">>}
\* Sequence numbers offered to the tracker in the general specification.
SeqValues == {0, 1, 3, 255}
\* Every 8-bit sequence number.
AllSeqs == 0..255
\* The clock moves by one tick, or by one tick less than the loss window.
ClockSteps(lossWindow) == {1, lossWindow - 1}

\* DMX payloads offered to Universe.Update: <<length, first value>>, slot i
\* carrying (first value + i) % 256.  Lengths reach one past the 512 slots.
PayloadShapes == {<<0, 0>>, <<1, 9>>, <<2, 7>>, <<512, 5>>, <<513, 3>>}
Payload(shape) == [i \in 1..shape[1] |-> (shape[2] + i - 1) % 256]
\* Who sends DMX data: name, CID, priority and sequence number of a packet.
Senders == {[sourceName |-> "a", sourceCID |-> 1, priority |-> 100,
             sequence |-> 7],
            [sourceName |-> "b", sourceCID |-> 2, priority |-> 200,
             sequence |-> 0]}
\* Timeouts handed to the manager's staleness queries, in ticks.
Timeouts == {0, 1}
\* Timeouts IsStale is asked about: a negative one, none, the shortest and
\* one of many days.
StaleTimeouts == {0 - 1, 0, 1, 1000000 * TicksPerSecond}
\* The threads (goroutines) calling concurrently.
Threads == {1, 2}
\* The packets a thread records: <<CID, source name, sequence number>>.
ThreadPackets == {<<1, "a", 0>>, <<1, "a", 3>>, <<2, "b", 0>>}

\* The fields Parse validates, in the order of the wire format.
Fields == {"preamble", "acn", "root", "framing", "dmp"}
\* Lengths of the channel data that follows the header of a datagram.
ChannelLengths == {0, 1, 512, 513}
\* Lengths datagrams are cut to, all shorter than the header.
ShortLengths == {0, 17, 125}
\* Source names on the wire: one letter, none, and all 64 bytes used.
WireNames == {<<97>>, <<>>, [i \in 1..64 |-> 98]}

\* --------------------------------------------------------------- constants

sourceRestartThreshold == 200
E131MaxChannels == 512
E131HeaderSize == 126
E131RootVector == 4
E131FramingVector == 2
E131DMPVector == 2
ACNPacketIdentifier == <<65, 83, 67, 45, 69, 49, 46, 49, 55, 0, 0, 0>>
rateWindow == TicksPerSecond
lossWindowDuration == 60 * TicksPerSecond

\* ------------------------------------------------------------------- state

VARIABLES
    universes,   \* Tracker.universes: universeID -> UniverseStats
    now,         \* the reading time.Now() returns
    lastOp,      \* the call that produced this state, with its arguments
    before,      \* Tracker.universes as it was when lastOp was called
    recorded,    \* the RecordPacket calls since the universe's last reset
    calls,       \* the number of calls made so far
    manager,     \* Manager.universes: universe ID -> address of a Universe
    heap,        \* address -> the Universe allocated there
    mgrOp,       \* the manager or universe call that produced this state
    mgrBefore,   \* manager and heap as they were when mgrOp was called
    updated,     \* address -> the Update calls made on it, oldest first
    pc,          \* thread -> the call it is in and the statement it is at
    managerMu,   \* Manager.mu
    trackerMu,   \* Tracker.mu
    statsMu,     \* universe ID -> UniverseStats.mu of its record
    history,     \* the manager calls of the threads, in the order they acted
    issued,      \* thread -> the RecordPacket calls it issued, oldest first
    datagram,    \* the datagram read last: its bytes, and how it was made
    parsed,      \* what Parse returned for it
    receiver,    \* the Receiver: packets, conn, rawConn, mu, started
    sockets,     \* the UDP sockets opened so far: "open" or "closed"
    ctxDone,     \* whether the context handed to Start is cancelled
    loop,        \* the readPackets goroutines started: where each one is
    ingest,      \* the ingestion loop of main: where it is, and its packet
    wire,        \* how many datagrams were read and how many decoded, and
                 \* the decode numbers of the packets taken from the queue and
                 \* applied to the manager and to the tracker, in that order
    startLog,    \* the Start calls, in the order they looked at `started`
    held         \* what a caller got from a query, and what it read in it

managerVars == <<manager, heap, mgrOp, mgrBefore, updated>>

threadVars == <<pc, managerMu, trackerMu, statsMu, history, issued>>

receiverVars ==
    <<datagram, parsed, receiver, sockets, ctxDone, loop, ingest, wire,
      startLog, held>>

vars ==
    <<universes, now, lastOp, before, recorded, calls, managerVars, threadVars,
      receiverVars>>

\* ----------------------------------------------------------------- helpers

RECURSIVE GCD(_, _)
GCD(a, b) == IF b = 0 THEN a ELSE GCD(b, a % b)

\* float64(num) / float64(den), den > 0, as the exact reduced fraction.
Float(num, den) ==
    LET g == GCD(num, den) IN <<num \div g, den \div g>>

\* The float64 constant 0.
FloatZero == <<0, 1>>

\* float64 multiplication by 100.
Times100(f) == Float(f[1] * 100, f[2])

\* time.Time.After: t is strictly later than u.
After(t, u) == t > u

\* Sums of the Received and of the Lost fields of a sequence of PacketEvents.
RECURSIVE SumReceived(_)
SumReceived(evts) ==
    IF evts = <<>> THEN 0 ELSE Head(evts).Received + SumReceived(Tail(evts))

RECURSIVE SumLost(_)
SumLost(evts) ==
    IF evts = <<>> THEN 0 ELSE Head(evts).Lost + SumLost(Tail(evts))

\* Duration.Seconds().
Seconds(d) == Float(d, TicksPerSecond)

\* ------------------------------------------------------------ constructors

NewTracker == <<>>

NewUniverseStats(universeID) ==
    [UniverseID      |-> universeID,
     Sources         |-> <<>>,
     PacketCount     |-> 0,
     LostPackets     |-> 0,
     LastPacket      |-> 0,
     packetsInWindow |-> <<>>,
     lossWindow      |-> <<>>]

NoCall == [op |-> "NewTracker", universeID |-> 0, sourceCID |-> 0,
           sourceName |-> "", sequence |-> 0]

\* universe.go:95  the zero time.Time, which no reading of the clock equals
ZeroTime == 0 - 1

\* universe.go:8-13  the zero Channel
ZeroChannel == [Value |-> 0, Active |-> FALSE, LastUpdate |-> ZeroTime]

\* universe.go:29-33; mu (universe.go:25) is the zero sync.RWMutex
NewUniverse(id) ==
    [ID |-> id,
     Channels |-> [i \in 0..511 |-> ZeroChannel],
     SourceName |-> "", SourceCID |-> 0, Priority |-> 0,
     LastSequence |-> 0, LastPacket |-> ZeroTime, PacketCount |-> 0,
     mu |-> [writer |-> 0, readers |-> {}]]

\* part_003:16-20
NewManager == <<>>

\* A thread that is in no call.
Idle == [at |-> "idle", op |-> "", id |-> 0, result |-> 0]

\* A sync.RWMutex nobody holds: the thread holding it for writing (0 for
\* none) and the threads holding it for reading.
Unlocked == [writer |-> 0, readers |-> {}]

NoManagerCall ==
    [op |-> "NewManager", id |-> 0, addr |-> 0, timeout |-> 0, at |-> 0,
     result |-> 0, written |-> {}]

InitCore ==
    /\ universes = NewTracker
    /\ now = 0
    /\ lastOp = NoCall
    /\ before = NewTracker
    /\ recorded = <<>>
    /\ calls = 0
    /\ manager = NewManager
    /\ heap = <<>>
    /\ mgrOp = NoManagerCall
    /\ mgrBefore = [manager |-> NewManager, heap |-> <<>>]
    /\ updated = <<>>
    /\ pc = [t \in Threads |-> Idle]
    /\ managerMu = Unlocked
    /\ trackerMu = Unlocked
    /\ statsMu = [u \in UniverseIDs |-> Unlocked]
    /\ history = <<>>
    /\ issued = [t \in Threads |-> <<>>]

\* No datagram read yet.
NoDatagram == [bytes |-> <<>>, corrupted |-> {}, channels |-> 0, cut |-> 0]

\* Parse not called yet.
NotParsed == [called |-> FALSE, err |-> "", offset |-> 0]

\* The nil pointer: no universe, no connection.
Nil == 0

\* part_006:22-26; the channel is the sequence of the packets it holds and
\* whether it was closed, which make() leaves false.
NewReceiver ==
    [packets |-> <<>>, closed |-> FALSE, conn |-> Nil, rawConn |-> Nil,
     mu |-> Unlocked, started |-> FALSE]

\* The ingestion loop waiting for a packet (main.go:44).
Waiting == [at |-> "take", packet |-> <<>>]

\* Nothing read, decoded, taken or applied yet.
NoTraffic ==
    [read |-> 0, decoded |-> 0, taken |-> <<>>, toManager |-> <<>>,
     toTracker |-> <<>>]

\* No query made yet.
NotHeld == [query |-> "", value |-> <<>>, seen |-> <<>>]

\* The receiver as constructed, not started.
InitReceiver ==
    /\ datagram = NoDatagram
    /\ parsed = NotParsed
    /\ receiver = NewReceiver
    /\ sockets = <<>>
    /\ ctxDone = FALSE
    /\ loop = <<>>
    /\ ingest = Waiting
    /\ wire = NoTraffic
    /\ startLog = <<>>
    /\ held = NotHeld

Init == InitCore /\ InitReceiver

\* ------------------------------------------------------------ RecordPacket

\* Mutant: the expected number is the last one again.
ExpectedSeq_NoIncrement(lastSequence) == lastSequence % 256

\* tracker.go:106  expectedSeq := uint8((int(source.LastSequence) + 1) % 256)
ExpectedSeq(lastSequence) == (lastSequence + 1) % 256

\* Mutant: the gap is the plain difference, without the wraparound.
SequenceGap_NoWrap(sequence, expectedSeq) ==
    IF sequence > expectedSeq
        THEN sequence - expectedSeq
        ELSE expectedSeq - sequence

\* tracker.go:109-115  the number of sequence numbers skipped
SequenceGap(sequence, expectedSeq) ==
    IF sequence > expectedSeq
        THEN sequence - expectedSeq
        ELSE 256 - expectedSeq + sequence

\* Mutant: the threshold is one lower.
CountsAsLoss_OneLess(lost) == lost < sourceRestartThreshold - 1

\* Mutant: a gap of exactly the threshold still counts as loss.
CountsAsLoss_Inclusive(lost) == lost <= sourceRestartThreshold

\* tracker.go:117  a gap below the threshold is loss, any other a restart
CountsAsLoss(lost) == lost < sourceRestartThreshold

\* Mutant: a tracked source is compared whatever its PacketCount.
LostThisPacket_IgnoresCount(sourceExists, source, sequence) ==
    IF sourceExists
        THEN LET expectedSeq == ExpectedSeq(source.LastSequence) IN
             IF sequence # expectedSeq
                 THEN LET lost == SequenceGap(sequence, expectedSeq) IN
                      IF CountsAsLoss(lost) THEN lost ELSE 0
                 ELSE 0
        ELSE 0

\* Mutant: the gap is computed for a source's first packet too.
LostThisPacket_FirstToo(sourceExists, source, sequence) ==
    LET expectedSeq == ExpectedSeq(source.LastSequence) IN
    IF sequence # expectedSeq
        THEN LET lost == SequenceGap(sequence, expectedSeq) IN
             IF CountsAsLoss(lost) THEN lost ELSE 0
        ELSE 0

\* tracker.go:104-125  lostThisPacket
LostThisPacket(sourceExists, source, sequence) ==
    IF sourceExists /\ source.PacketCount > 0
        THEN LET expectedSeq == ExpectedSeq(source.LastSequence) IN
             IF sequence # expectedSeq
                 THEN LET lost == SequenceGap(sequence, expectedSeq) IN
                      IF CountsAsLoss(lost) THEN lost ELSE 0
                 ELSE 0
        ELSE 0

\* tracker.go:84-91  the arrivals of the rate window later than the cutoff
CleanRateWindow(window, cutoff) ==
    SelectSeq(window, LAMBDA pt : After(pt, cutoff))

\* tracker.go:135-142  the events of the loss window later than the cutoff
CleanLossWindow(window, lossCutoff) ==
    SelectSeq(window, LAMBDA evt : After(evt.Timestamp, lossCutoff))

\* Mutant: the stored name is the one of the source's first packet.
TouchSource_KeepName(source, sourceName, sequence, at) ==
    [source EXCEPT !.LastSequence = sequence,
                   !.LastSeen = at,
                   !.PacketCount = @ + 1]

\* tracker.go:144-147  the fields every call writes into the source
TouchSource(source, sourceName, sequence, at) ==
    [source EXCEPT !.LastSequence = sequence,
                   !.LastSeen = at,
                   !.PacketCount = @ + 1,
                   !.Name = sourceName]

\* Mutant: every packet of a universe is booked on one source entry.
RecordPacketOn_OneSource(t, universeID, sourceCID, sourceName, sequence, at) ==
    LET exists == universeID \in DOMAIN t
        stats == IF exists THEN t[universeID] ELSE NewUniverseStats(universeID)
        sourceExists == 1 \in DOMAIN stats.Sources
        source == IF sourceExists
                      THEN stats.Sources[1]
                      ELSE [CID |-> sourceCID, Name |-> sourceName,
                            LastSequence |-> 0, LastSeen |-> 0,
                            PacketCount |-> 0, LostPackets |-> 0]
        lostThisPacket == LostThisPacket(sourceExists, source, sequence)
        counted == [source EXCEPT !.LostPackets = @ + lostThisPacket]
        evt == [Timestamp |-> at, Received |-> 1, Lost |-> lostThisPacket]
        newStats ==
            [stats EXCEPT
                !.PacketCount = @ + 1,
                !.LastPacket = at,
                !.packetsInWindow =
                    CleanRateWindow(Append(@, at), at - rateWindow),
                !.LostPackets = @ + lostThisPacket,
                !.lossWindow =
                    CleanLossWindow(Append(@, evt), at - lossWindowDuration),
                !.Sources = (1 :>
                    TouchSource(counted, sourceName, sequence, at)) @@ @]
    IN (universeID :> newStats) @@ t

\* Mutant: the rate window is one for all universes: recording for one
\* universe empties the windows of the others.
RecordPacketOn_Shared(t, universeID, sourceCID, sourceName, sequence, at) ==
    LET exists == universeID \in DOMAIN t
        stats == IF exists THEN t[universeID] ELSE NewUniverseStats(universeID)
        sourceExists == sourceCID \in DOMAIN stats.Sources
        source == IF sourceExists
                      THEN stats.Sources[sourceCID]
                      ELSE [CID |-> sourceCID, Name |-> sourceName,
                            LastSequence |-> 0, LastSeen |-> 0,
                            PacketCount |-> 0, LostPackets |-> 0]
        lostThisPacket == LostThisPacket(sourceExists, source, sequence)
        counted == [source EXCEPT !.LostPackets = @ + lostThisPacket]
        evt == [Timestamp |-> at, Received |-> 1, Lost |-> lostThisPacket]
        newStats ==
            [stats EXCEPT
                !.PacketCount = @ + 1,
                !.LastPacket = at,
                !.packetsInWindow =
                    CleanRateWindow(Append(@, at), at - rateWindow),
                !.LostPackets = @ + lostThisPacket,
                !.lossWindow =
                    CleanLossWindow(Append(@, evt), at - lossWindowDuration),
                !.Sources = (sourceCID :>
                    TouchSource(counted, sourceName, sequence, at)) @@ @]
    IN (universeID :> newStats)
           @@ [u \in DOMAIN t |-> [t[u] EXCEPT !.packetsInWindow = <<>>]]

\* tracker.go:61-148  the tracker after RecordPacket at time `at`
RecordPacketOn(t, universeID, sourceCID, sourceName, sequence, at) ==
    LET exists == universeID \in DOMAIN t
        stats == IF exists THEN t[universeID] ELSE NewUniverseStats(universeID)
        sourceExists == sourceCID \in DOMAIN stats.Sources
        source == IF sourceExists
                      THEN stats.Sources[sourceCID]
                      ELSE [CID |-> sourceCID, Name |-> sourceName,
                            LastSequence |-> 0, LastSeen |-> 0,
                            PacketCount |-> 0, LostPackets |-> 0]
        lostThisPacket == LostThisPacket(sourceExists, source, sequence)
        counted == [source EXCEPT !.LostPackets = @ + lostThisPacket]
        evt == [Timestamp |-> at, Received |-> 1, Lost |-> lostThisPacket]
        newStats ==
            [stats EXCEPT
                !.PacketCount = @ + 1,
                !.LastPacket = at,
                !.packetsInWindow =
                    CleanRateWindow(Append(@, at), at - rateWindow),
                !.LostPackets = @ + lostThisPacket,
                !.lossWindow =
                    CleanLossWindow(Append(@, evt), at - lossWindowDuration),
                !.Sources = (sourceCID :>
                    TouchSource(counted, sourceName, sequence, at)) @@ @]
    IN (universeID :> newStats) @@ t

RecordPacket(universeID, sourceCID, sourceName, sequence) ==
    /\ universes' = RecordPacketOn(universes, universeID, sourceCID,
                                   sourceName, sequence, now)
    /\ lastOp' = [op |-> "RecordPacket", universeID |-> universeID,
                  sourceCID |-> sourceCID, sourceName |-> sourceName,
                  sequence |-> sequence]
    /\ before' = universes
    /\ recorded' = Append(recorded,
                          [universeID |-> universeID, sourceCID |-> sourceCID,
                           sequence |-> sequence, at |-> now,
                           lost |-> universes'[universeID].LostPackets
                                    - IF universeID \in DOMAIN universes
                                          THEN universes[universeID].LostPackets
                                          ELSE 0])
    /\ calls' = calls + 1
    /\ UNCHANGED now

\* ------------------------------------------------------------------ resets

\* Mutant: the reset zeroes the universe's totals and leaves its sources'.
ResetUniverseStatsOn_TotalsOnly(t, universeID) ==
    IF universeID \in DOMAIN t
        THEN [t EXCEPT ![universeID] =
                [@ EXCEPT
                    !.PacketCount = 0,
                    !.LostPackets = 0,
                    !.packetsInWindow = <<>>,
                    !.lossWindow = <<>>]]
        ELSE t

\* Mutant: the reset empties the universe's source map as well.
ResetUniverseStatsOn_DropSources(t, universeID) ==
    IF universeID \in DOMAIN t
        THEN [t EXCEPT ![universeID] =
                [@ EXCEPT
                    !.PacketCount = 0,
                    !.LostPackets = 0,
                    !.packetsInWindow = <<>>,
                    !.lossWindow = <<>>,
                    !.Sources = <<>>]]
        ELSE t

\* tracker.go:264-280
ResetUniverseStatsOn(t, universeID) ==
    IF universeID \in DOMAIN t
        THEN [t EXCEPT ![universeID] =
                [@ EXCEPT
                    !.PacketCount = 0,
                    !.LostPackets = 0,
                    !.packetsInWindow = <<>>,
                    !.lossWindow = <<>>,
                    !.Sources = [c \in DOMAIN @ |->
                        [@[c] EXCEPT !.PacketCount = 0, !.LostPackets = 0]]]]
        ELSE t

ResetUniverseStats(universeID) ==
    /\ universes' = ResetUniverseStatsOn(universes, universeID)
    /\ lastOp' = [NoCall EXCEPT !.op = "ResetUniverseStats",
                                !.universeID = universeID]
    /\ before' = universes
    /\ recorded' = SelectSeq(recorded, LAMBDA r : r.universeID # universeID)
    /\ calls' = calls + 1
    /\ UNCHANGED now

\* Mutant: every universe is reset, none is discarded.
ResetAllStats_KeepUniverses ==
    /\ universes' = [u \in DOMAIN universes |->
                        ResetUniverseStatsOn(universes, u)[u]]
    /\ lastOp' = [NoCall EXCEPT !.op = "ResetAllStats"]
    /\ before' = universes
    /\ recorded' = <<>>
    /\ calls' = calls + 1
    /\ UNCHANGED now

\* tracker.go:283-288
ResetAllStats ==
    /\ universes' = NewTracker
    /\ lastOp' = [NoCall EXCEPT !.op = "ResetAllStats"]
    /\ before' = universes
    /\ recorded' = <<>>
    /\ calls' = calls + 1
    /\ UNCHANGED now

\* ------------------------------------------------------------------- clock

\* time.Now() is monotonic: between two calls it may have moved on.
Advance(d) ==
    /\ now' = now + d
    /\ calls' = calls + 1
    /\ UNCHANGED <<universes, lastOp, before, recorded>>

\* ---------------------------------------------------------------- universe

\* Mutant: the loop runs over the whole payload.
InLoop_NoCap(i, n) == i < n

\* universe.go:51  the condition of the loop over a payload of n bytes
InLoop(i, n) == i < n /\ i < 512

\* universe.go:51-55  the indices the loop writes to (its condition, once
\* false, stays false for every larger index)
UpdateIndices(n) == {i \in 0..(n - 1) : InLoop(i, n)}

\* Mutant: the slots a packet does not carry are cleared.
UpdateChannels_ClearRest(channels, channelData, at) ==
    [i \in DOMAIN channels |->
        IF InLoop(i, Len(channelData))
            THEN [Value |-> channelData[i + 1], Active |-> TRUE,
                  LastUpdate |-> at]
            ELSE ZeroChannel]

\* universe.go:51-55  Universe.Channels after the loop
UpdateChannels(channels, channelData, at) ==
    [i \in DOMAIN channels |->
        IF InLoop(i, Len(channelData))
            THEN [Value |-> channelData[i + 1], Active |-> TRUE,
                  LastUpdate |-> at]
            ELSE channels[i]]

\* Mutant: the metadata of the first packet is kept.
UpdateOn_FirstSourceWins(u, channelData, sender, at) ==
    [u EXCEPT
        !.SourceName = IF u.PacketCount = 0 THEN sender.sourceName ELSE @,
        !.SourceCID = IF u.PacketCount = 0 THEN sender.sourceCID ELSE @,
        !.Priority = sender.priority,
        !.LastSequence = sender.sequence,
        !.LastPacket = at,
        !.PacketCount = @ + 1,
        !.Channels = UpdateChannels(@, channelData, at)]

\* universe.go:36-56  the Universe u after Update at time `at`
UpdateOn(u, channelData, sender, at) ==
    [u EXCEPT
        !.SourceName = sender.sourceName,
        !.SourceCID = sender.sourceCID,
        !.Priority = sender.priority,
        !.LastSequence = sender.sequence,
        !.LastPacket = at,
        !.PacketCount = @ + 1,
        !.Channels = UpdateChannels(@, channelData, at)]

\* The Update calls made so far on the Universe at addr, oldest first.
UpdatesOf(addr) == IF addr \in DOMAIN updated THEN updated[addr] ELSE <<>>

\* universe.go:36-56  Update on the Universe at addr, called with the
\* manager's map m and the heap h
Update(m, h, addr, channelData, sender) ==
    /\ heap' = [h EXCEPT ![addr] = UpdateOn(@, channelData, sender, now)]
    /\ manager' = m
    /\ mgrOp' = [NoManagerCall EXCEPT
                    !.op = "Update", !.id = h[addr].ID, !.addr = addr,
                    !.at = now,
                    !.written = UpdateIndices(Len(channelData))]
    /\ mgrBefore' = [manager |-> m, heap |-> h]
    /\ updated' = (addr :> Append(UpdatesOf(addr),
                                  [channelData |-> channelData,
                                   sender |-> sender, at |-> now]))
                   @@ updated
    /\ calls' = calls + 1
    /\ UNCHANGED now

\* universe.go:59-67
GetChannel(u, index) ==
    IF index < 0 \/ index >= 512 THEN ZeroChannel ELSE u.Channels[index]

\* universe.go:77-88
ActiveChannelCount(u) ==
    Cardinality({i \in DOMAIN u.Channels : u.Channels[i].Active})

\* Mutant: a packet exactly `timeout` old is stale already.
IsStale_Inclusive(u, timeout, at) ==
    IF u.LastPacket = ZeroTime THEN TRUE ELSE at - u.LastPacket >= timeout

\* Mutant: the zero time is compared like any other.
IsStale_ZeroIsATime(u, timeout, at) == at - u.LastPacket > timeout

\* universe.go:91-99  IsStale when the clock reads `at`
IsStale(u, timeout, at) ==
    IF u.LastPacket = ZeroTime THEN TRUE ELSE at - u.LastPacket > timeout

\* ----------------------------------------------------------------- queries

\* Mutant: the query counts the whole stored window, stale arrivals too.
GetPacketRate_NoCutoff(universeID) ==
    IF universeID \notin DOMAIN universes
        THEN FloatZero
        ELSE LET stats == universes[universeID]
                 count == Len(stats.packetsInWindow)
                 secs == Seconds(rateWindow)
             IN Float(count * secs[2], secs[1])

\* tracker.go:158-181
GetPacketRate(universeID) ==
    IF universeID \notin DOMAIN universes
        THEN FloatZero
        ELSE LET stats == universes[universeID]
                 cutoff == now - rateWindow
                 count == Len(SelectSeq(stats.packetsInWindow,
                                        LAMBDA pt : After(pt, cutoff)))
                 secs == Seconds(rateWindow)
             IN Float(count * secs[2], secs[1])

\* Mutant: the loss is taken relative to the received packets only.
GetLossPercentage_OverReceived(universeID) ==
    IF universeID \notin DOMAIN universes
        THEN FloatZero
        ELSE LET stats == universes[universeID] IN
             IF stats.PacketCount = 0
                 THEN FloatZero
                 ELSE Times100(Float(stats.LostPackets, stats.PacketCount))

\* tracker.go:184-202
GetLossPercentage(universeID) ==
    IF universeID \notin DOMAIN universes
        THEN FloatZero
        ELSE LET stats == universes[universeID]
                 totalExpected == stats.PacketCount + stats.LostPackets
             IN IF totalExpected = 0
                    THEN FloatZero
                    ELSE Times100(Float(stats.LostPackets, totalExpected))

\* Mutant: the query sums the whole stored window, stale events too.
GetRecentLossPercentage_NoCutoff(universeID) ==
    IF universeID \notin DOMAIN universes
        THEN FloatZero
        ELSE LET stats == universes[universeID]
                 totalReceived == SumReceived(stats.lossWindow)
                 totalLost == SumLost(stats.lossWindow)
                 totalExpected == totalReceived + totalLost
             IN IF totalExpected = 0
                    THEN FloatZero
                    ELSE Times100(Float(totalLost, totalExpected))

\* tracker.go:205-235
GetRecentLossPercentage(universeID) ==
    IF universeID \notin DOMAIN universes
        THEN FloatZero
        ELSE LET stats == universes[universeID]
                 cutoff == now - lossWindowDuration
                 inWindow == SelectSeq(stats.lossWindow,
                                 LAMBDA evt : After(evt.Timestamp, cutoff))
                 totalReceived == SumReceived(inWindow)
                 totalLost == SumLost(inWindow)
                 totalExpected == totalReceived + totalLost
             IN IF totalExpected = 0
                    THEN FloatZero
                    ELSE Times100(Float(totalLost, totalExpected))

\* Mutant: the query reads the universe's counters, not the source's.
GetSourceLossPercentage_UniverseWide(universeID, sourceCID) ==
    IF universeID \notin DOMAIN universes
        THEN FloatZero
        ELSE LET stats == universes[universeID] IN
             IF sourceCID \notin DOMAIN stats.Sources
                 THEN FloatZero
                 ELSE LET totalExpected ==
                              stats.PacketCount + stats.LostPackets
                      IN IF totalExpected = 0
                             THEN FloatZero
                             ELSE Times100(Float(stats.LostPackets,
                                                 totalExpected))

\* tracker.go:238-261
GetSourceLossPercentage(universeID, sourceCID) ==
    IF universeID \notin DOMAIN universes
        THEN FloatZero
        ELSE LET stats == universes[universeID] IN
             IF sourceCID \notin DOMAIN stats.Sources
                 THEN FloatZero
                 ELSE LET source == stats.Sources[sourceCID]
                          totalExpected ==
                              source.PacketCount + source.LostPackets
                      IN IF totalExpected = 0
                             THEN FloatZero
                             ELSE Times100(Float(source.LostPackets,
                                                 totalExpected))

\* tracker.go:151-155  the record of a universe, nil (<<>>) when untracked
GetUniverseStats(universeID) ==
    IF universeID \notin DOMAIN universes
        THEN <<>>
        ELSE <<universes[universeID]>>

\* tracker.go:290-308  the copies of the sources of a universe, as a set
GetSources(universeID) ==
    IF universeID \notin DOMAIN universes
        THEN {}
        ELSE {universes[universeID].Sources[c] :
                 c \in DOMAIN universes[universeID].Sources}

\* tracker.go:310-320  the tracked universe IDs, as a set
GetAllUniverseIDs == DOMAIN universes

\* ----------------------------------------------------------------- manager

\* part_003:23-34  map, heap and returned address of GetOrCreate(id); a new
\* Universe is allocated at the next free address
GetOrCreateOn(m, h, id) ==
    IF id \in DOMAIN m
        THEN [manager |-> m, heap |-> h, result |-> m[id]]
        ELSE [manager |-> (id :> Len(h) + 1) @@ m,
              heap |-> Append(h, NewUniverse(id)),
              result |-> Len(h) + 1]

\* part_003:23-34
GetOrCreate(id) ==
    LET g == GetOrCreateOn(manager, heap, id) IN
    /\ manager' = g.manager
    /\ heap' = g.heap
    /\ mgrOp' = [NoManagerCall EXCEPT
                    !.op = "GetOrCreate", !.id = id, !.addr = g.result,
                    !.at = now, !.result = g.result]
    /\ mgrBefore' = [manager |-> manager, heap |-> heap]
    /\ calls' = calls + 1
    /\ UNCHANGED <<now, updated>>

\* main.go:43-63  a data packet for universe id: GetOrCreate, then Update
Ingest(id, channelData, sender) ==
    LET g == GetOrCreateOn(manager, heap, id) IN
    Update(g.manager, g.heap, g.result, channelData, sender)

\* part_003:37-41
Get(id) == IF id \in DOMAIN manager THEN manager[id] ELSE Nil

\* Mutant: the comparison of the sort is turned around.
Less_Reversed(a, b) == heap[a].ID > heap[b].ID

\* part_003:54-56, 73-75  the order handed to sort.Slice
Less(a, b) == heap[a].ID < heap[b].ID

\* part_003:54-56  sort.Slice on a set of addresses: the sequence of its
\* members in which no later one is Less than an earlier one
RECURSIVE Sorted(_)
Sorted(S) ==
    IF S = {}
        THEN <<>>
        ELSE LET first == CHOOSE a \in S : \A b \in S : ~Less(b, a)
             IN <<first>> \o Sorted(S \ {first})

\* part_003:44-59
GetAll == Sorted({manager[id] : id \in DOMAIN manager})

\* Mutant: universes that never got a packet are listed too.
GetActiveUniverses_ZeroIsActive(timeout) ==
    Sorted({manager[id] : id \in
               {i \in DOMAIN manager :
                   \/ heap[manager[i]].LastPacket = ZeroTime
                   \/ ~IsStale(heap[manager[i]], timeout, now)}})

\* part_003:62-78  GetActiveUniverses when the clock reads `now`
GetActiveUniverses(timeout) ==
    Sorted({manager[id] : id \in
               {i \in DOMAIN manager :
                   ~IsStale(heap[manager[i]], timeout, now)}})

\* part_003:81-85
Count == Cardinality(DOMAIN manager)

\* part_003:88-92
Remove(id) ==
    /\ manager' = [i \in DOMAIN manager \ {id} |-> manager[i]]
    /\ mgrOp' = [NoManagerCall EXCEPT !.op = "Remove", !.id = id, !.at = now]
    /\ mgrBefore' = [manager |-> manager, heap |-> heap]
    /\ calls' = calls + 1
    /\ UNCHANGED <<now, heap, updated>>

\* part_003:95-107
PruneStale(timeout) ==
    LET stale == {id \in DOMAIN manager :
                     IsStale(heap[manager[id]], timeout, now)} IN
    /\ manager' = [i \in DOMAIN manager \ stale |-> manager[i]]
    /\ mgrOp' = [NoManagerCall EXCEPT
                    !.op = "PruneStale", !.timeout = timeout, !.at = now,
                    !.result = Cardinality(stale)]
    /\ mgrBefore' = [manager |-> manager, heap |-> heap]
    /\ calls' = calls + 1
    /\ UNCHANGED <<now, heap, updated>>

\* --------------------------------------------------- threads on the manager

\* Mutant: Lock is granted whoever holds the mutex.
CanLock_NotExclusive(mu) == mu.writer = mu.writer

\* Mutant: Lock looks at the readers only.
CanLock_IgnoresWriter(mu) == mu.readers = {}

\* sync.RWMutex.Lock returns when nobody holds the mutex
CanLock(mu) == mu.writer = 0 /\ mu.readers = {}

\* sync.RWMutex.RLock returns when nobody holds the mutex for writing
CanRLock(mu) == mu.writer = 0

\* Another thread than t is inside a call.
Overlaps(t) == \E o \in Threads \ {t} : pc[o].at # "idle"

\* The entry of `history` for the call thread t is in, which returns result
\* and leaves the manager's map as m and the heap with n universes.
Event(t, result, m, n) ==
    [thread |-> t, op |-> pc[t].op, id |-> pc[t].id, result |-> result,
     managerBefore |-> manager, managerAfter |-> m,
     allocatedBefore |-> Len(heap), allocatedAfter |-> n,
     concurrent |-> Overlaps(t)]

\* Thread t calls op(id); "lock" is part_003:24 or 89, "rlock" part_003:38.
Begin(t, op, id) ==
    /\ pc[t].at = "idle"
    /\ pc' = [pc EXCEPT ![t] = [at |-> IF op = "Get" THEN "rlock" ELSE "lock",
                                op |-> op, id |-> id, result |-> Nil]]
    /\ calls' = calls + 1
    /\ UNCHANGED <<manager, heap, managerMu, history>>

\* part_003:24, 89  m.mu.Lock()
ManagerLock(t) ==
    /\ pc[t].at = "lock"
    /\ CanLock(managerMu)
    /\ managerMu' = [managerMu EXCEPT !.writer = t]
    /\ pc' = [pc EXCEPT ![t].at = IF pc[t].op = "GetOrCreate"
                                     THEN "lookup"
                                     ELSE "delete"]
    /\ UNCHANGED <<manager, heap, history, calls>>

\* part_003:27-29  the lookup of GetOrCreate and its return of the universe
\* found
GetOrCreateLookup(t) ==
    /\ pc[t].at = "lookup"
    /\ pc[t].op = "GetOrCreate"
    /\ IF pc[t].id \in DOMAIN manager
           THEN /\ pc' = [pc EXCEPT ![t].at = "unlock",
                                    ![t].result = manager[pc[t].id]]
                /\ history' = Append(history,
                                     Event(t, manager[pc[t].id], manager,
                                           Len(heap)))
           ELSE /\ pc' = [pc EXCEPT ![t].at = "create"]
                /\ UNCHANGED history
    /\ UNCHANGED <<manager, heap, managerMu, calls>>

\* part_003:31-33  NewUniverse, its insertion and its return
GetOrCreateInsert(t) ==
    /\ pc[t].at = "create"
    /\ heap' = Append(heap, NewUniverse(pc[t].id))
    /\ manager' = (pc[t].id :> Len(heap) + 1) @@ manager
    /\ pc' = [pc EXCEPT ![t].at = "unlock", ![t].result = Len(heap) + 1]
    /\ history' = Append(history,
                         Event(t, Len(heap) + 1, manager', Len(heap) + 1))
    /\ UNCHANGED <<managerMu, calls>>

\* part_003:91  delete(m.universes, id)
RemoveDelete(t) ==
    /\ pc[t].at = "delete"
    /\ manager' = [i \in DOMAIN manager \ {pc[t].id} |-> manager[i]]
    /\ pc' = [pc EXCEPT ![t].at = "unlock"]
    /\ history' = Append(history, Event(t, Nil, manager', Len(heap)))
    /\ UNCHANGED <<heap, managerMu, calls>>

\* part_003:25, 90  the deferred m.mu.Unlock(), and the return
ManagerUnlock(t) ==
    /\ pc[t].at = "unlock"
    /\ managerMu' = [managerMu EXCEPT !.writer = 0]
    /\ pc' = [pc EXCEPT ![t] = Idle]
    /\ UNCHANGED <<manager, heap, history, calls>>

\* part_003:38  m.mu.RLock()
ManagerRLock(t) ==
    /\ pc[t].at = "rlock"
    /\ CanRLock(managerMu)
    /\ managerMu' = [managerMu EXCEPT !.readers = @ \cup {t}]
    /\ pc' = [pc EXCEPT ![t].at = "read"]
    /\ UNCHANGED <<manager, heap, history, calls>>

\* part_003:40  return m.universes[id]
GetRead(t) ==
    /\ pc[t].at = "read"
    /\ pc' = [pc EXCEPT ![t].at = "runlock", ![t].result = Get(pc[t].id)]
    /\ history' = Append(history, Event(t, Get(pc[t].id), manager, Len(heap)))
    /\ UNCHANGED <<manager, heap, managerMu, calls>>

\* part_003:39  the deferred m.mu.RUnlock(), and the return
ManagerRUnlock(t) ==
    /\ pc[t].at = "runlock"
    /\ managerMu' = [managerMu EXCEPT !.readers = @ \ {t}]
    /\ pc' = [pc EXCEPT ![t] = Idle]
    /\ UNCHANGED <<manager, heap, history, calls>>

\* --------------------------------------------------- threads on the tracker

\* The universe thread t records its packets for: each thread its own.
UniverseOf(t) == t

\* The call thread t is in: the last it issued.
Call(t) == issued[t][Len(issued[t])]

\* The statements of RecordPacket between t.mu.Lock() and t.mu.Unlock(),
\* which read and write the map Tracker.universes.
MapSection == {"lookup", "insert", "unlockMap"}

\* Thread t calls RecordPacket(universeID, sourceCID, sourceName,
\* sequence); "lockMap" is tracker.go:62.
RecordBeginOn(t, universeID, sourceCID, sourceName, sequence) ==
    /\ pc[t].at = "idle"
    /\ pc' = [pc EXCEPT ![t] = [at |-> "lockMap", op |-> "RecordPacket",
                                id |-> universeID, result |-> 0]]
    /\ issued' = [issued EXCEPT
                     ![t] = Append(@, [sourceCID |-> sourceCID,
                                       sourceName |-> sourceName,
                                       sequence |-> sequence,
                                       concurrent |-> Overlaps(t)])]
    /\ calls' = calls + 1
    /\ UNCHANGED <<universes, trackerMu, statsMu>>

\* Thread t calls RecordPacket for the universe of its own.
RecordBegin(t, sourceCID, sourceName, sequence) ==
    RecordBeginOn(t, UniverseOf(t), sourceCID, sourceName, sequence)

\* tracker.go:62  t.mu.Lock()
RecordLockMap(t) ==
    /\ pc[t].at = "lockMap"
    /\ CanLock(trackerMu)
    /\ trackerMu' = [trackerMu EXCEPT !.writer = t]
    /\ pc' = [pc EXCEPT ![t].at = "lookup"]
    /\ UNCHANGED <<universes, statsMu, issued, calls>>

\* tracker.go:63-64  stats, exists := t.universes[universeID]
RecordLookup(t) ==
    /\ pc[t].at = "lookup"
    /\ pc[t].op = "RecordPacket"
    /\ pc' = [pc EXCEPT ![t].at = IF pc[t].id \in DOMAIN universes
                                     THEN "unlockMap"
                                     ELSE "insert"]
    /\ UNCHANGED <<universes, trackerMu, statsMu, issued, calls>>

\* tracker.go:65-69  the new record and its insertion.  A write of the map
\* while another thread is in its map section is a data race, after which
\* the map may have lost any of its entries.
RecordInsert(t) ==
    LET inserted == (pc[t].id :> NewUniverseStats(pc[t].id)) @@ universes
        racing == \E o \in Threads \ {t} : pc[o].at \in MapSection
    IN
    /\ pc[t].at = "insert"
    /\ universes' \in
          IF racing
              THEN {[u \in kept |-> inserted[u]] :
                       kept \in SUBSET DOMAIN inserted}
              ELSE {inserted}
    /\ pc' = [pc EXCEPT ![t].at = "unlockMap"]
    /\ UNCHANGED <<trackerMu, statsMu, issued, calls>>

\* tracker.go:71  t.mu.Unlock()
RecordUnlockMap(t) ==
    /\ pc[t].at = "unlockMap"
    /\ trackerMu' = [trackerMu EXCEPT !.writer = 0]
    /\ pc' = [pc EXCEPT ![t].at = "lockStats"]
    /\ UNCHANGED <<universes, statsMu, issued, calls>>

\* Mutant: the lock of the record is taken without waiting for it.
RecordLockStats_NoWait(t) ==
    /\ pc[t].at = "lockStats"
    /\ statsMu' = [statsMu EXCEPT ![pc[t].id].writer = t]
    /\ pc' = [pc EXCEPT ![t].at = "body"]
    /\ UNCHANGED <<universes, trackerMu, issued, calls>>

\* tracker.go:73  stats.mu.Lock()
RecordLockStats(t) ==
    /\ pc[t].at = "lockStats"
    /\ CanLock(statsMu[pc[t].id])
    /\ statsMu' = [statsMu EXCEPT ![pc[t].id].writer = t]
    /\ pc' = [pc EXCEPT ![t].at = "body"]
    /\ UNCHANGED <<universes, trackerMu, issued, calls>>

\* tracker.go:76-147  the body, on the record the thread holds; a record
\* that is no longer in the map is written to without anyone seeing it
RecordBody(t) ==
    /\ pc[t].at = "body"
    /\ universes' =
          IF pc[t].id \in DOMAIN universes
              THEN RecordPacketOn(universes, pc[t].id, Call(t).sourceCID,
                                  Call(t).sourceName, Call(t).sequence, now)
              ELSE universes
    /\ pc' = [pc EXCEPT ![t].at = "unlockStats"]
    /\ UNCHANGED <<trackerMu, statsMu, issued, calls>>

\* tracker.go:76  now := time.Now(), and the body's reads of the record the
\* thread holds: the body as two steps, what it reads and what it writes.
\* The calls are logged in the order in which their bodies start.
RecordRead(t) ==
    /\ pc[t].at = "body"
    /\ pc' = [pc EXCEPT
                 ![t].at = "write",
                 ![t].result =
                     [stats |-> IF pc[t].id \in DOMAIN universes
                                   THEN universes[pc[t].id]
                                   ELSE NewUniverseStats(pc[t].id),
                      at |-> now]]
    /\ history' = Append(history,
                         [thread |-> t, universeID |-> pc[t].id,
                          sourceCID |-> Call(t).sourceCID,
                          sourceName |-> Call(t).sourceName,
                          sequence |-> Call(t).sequence, at |-> now])
    /\ UNCHANGED <<universes, trackerMu, statsMu, issued, calls>>

\* tracker.go:77-147  the body's writes to the record, computed from what
\* it read; a record that is no longer in the map is written to without
\* anyone seeing it
RecordWrite(t) ==
    /\ pc[t].at = "write"
    /\ universes' =
          IF pc[t].id \in DOMAIN universes
              THEN [universes EXCEPT
                       ![pc[t].id] =
                           RecordPacketOn((pc[t].id :> pc[t].result.stats),
                                          pc[t].id, Call(t).sourceCID,
                                          Call(t).sourceName,
                                          Call(t).sequence,
                                          pc[t].result.at)[pc[t].id]]
              ELSE universes
    /\ pc' = [pc EXCEPT ![t].at = "unlockStats", ![t].result = 0]
    /\ UNCHANGED <<trackerMu, statsMu, issued, calls, history>>

\* tracker.go:74  the deferred stats.mu.Unlock(), and the return
RecordUnlockStats(t) ==
    /\ pc[t].at = "unlockStats"
    /\ statsMu' = [statsMu EXCEPT ![pc[t].id].writer = 0]
    /\ pc' = [pc EXCEPT ![t] = Idle]
    /\ UNCHANGED <<universes, trackerMu, issued, calls>>

\* -------------------------------------------------------------- wire codec

\* data[i], i counted from 0 as in Go
ByteAt(data, i) == data[i + 1]

\* data[lo:hi]
Slice(data, lo, hi) == SubSeq(data, lo + 1, hi)

\* binary.BigEndian.Uint32 of four bytes.  The model's integers have 32 bits
\* with a sign: the datagrams offered keep the first byte below 128.
Uint32(b) == b[1] * 16777216 + b[2] * 65536 + b[3] * 256 + b[4]

\* binary.BigEndian.Uint16 of two bytes
Uint16(b) == b[1] * 256 + b[2]

\* bytes.IndexByte: the index, from 0, of the first c in b, -1 without one
IndexByte(b, c) ==
    IF \E k \in 1..Len(b) : b[k] = c
        THEN (CHOOSE k \in 1..Len(b) :
                  b[k] = c /\ \A j \in 1..(k - 1) : b[j] # c) - 1
        ELSE 0 - 1

\* types.go:58-60
NewParseError(message, offset) ==
    [called |-> TRUE, err |-> message, offset |-> offset]

\* Mutant: the DMP vector is checked right after the length.
Validate_DMPFirst(data) ==
    IF Len(data) < E131HeaderSize
        THEN NewParseError("packet too short", 0)
    ELSE IF ByteAt(data, 117) # E131DMPVector
        THEN NewParseError("invalid DMP vector", 117)
    ELSE IF ByteAt(data, 0) # 0 \/ ByteAt(data, 1) # 16
        THEN NewParseError("invalid preamble size", 0)
    ELSE IF Slice(data, 4, 16) # ACNPacketIdentifier
        THEN NewParseError("invalid ACN packet identifier", 4)
    ELSE IF Uint32(Slice(data, 18, 22)) # E131RootVector
        THEN NewParseError("invalid root vector", 18)
    ELSE IF Uint32(Slice(data, 40, 44)) # E131FramingVector
        THEN NewParseError("invalid framing vector", 40)
    ELSE NewParseError("", 0)

\* Mutant: the DMP vector is not checked.
Validate_NoDMPCheck(data) ==
    IF Len(data) < E131HeaderSize
        THEN NewParseError("packet too short", 0)
    ELSE IF ByteAt(data, 0) # 0 \/ ByteAt(data, 1) # 16
        THEN NewParseError("invalid preamble size", 0)
    ELSE IF Slice(data, 4, 16) # ACNPacketIdentifier
        THEN NewParseError("invalid ACN packet identifier", 4)
    ELSE IF Uint32(Slice(data, 18, 22)) # E131RootVector
        THEN NewParseError("invalid root vector", 18)
    ELSE IF Uint32(Slice(data, 40, 44)) # E131FramingVector
        THEN NewParseError("invalid framing vector", 40)
    ELSE NewParseError("", 0)

\* part_005:11-40  the checks of Parse: the first error, or none (err = "")
Validate(data) ==
    IF Len(data) < E131HeaderSize
        THEN NewParseError("packet too short", 0)
    ELSE IF ByteAt(data, 0) # 0 \/ ByteAt(data, 1) # 16
        THEN NewParseError("invalid preamble size", 0)
    ELSE IF Slice(data, 4, 16) # ACNPacketIdentifier
        THEN NewParseError("invalid ACN packet identifier", 4)
    ELSE IF Uint32(Slice(data, 18, 22)) # E131RootVector
        THEN NewParseError("invalid root vector", 18)
    ELSE IF Uint32(Slice(data, 40, 44)) # E131FramingVector
        THEN NewParseError("invalid framing vector", 40)
    ELSE IF ByteAt(data, 117) # E131DMPVector
        THEN NewParseError("invalid DMP vector", 117)
    ELSE NewParseError("", 0)

\* part_005:49-56  the source name: the 64 bytes up to the first zero byte
SourceNameOf(data) ==
    LET sourceNameBytes == Slice(data, 44, 108)
        nullIdx == IndexByte(sourceNameBytes, 0)
    IN IF nullIdx > 0
           THEN SubSeq(sourceNameBytes, 1, nullIdx)
           ELSE IF nullIdx < 0 THEN sourceNameBytes ELSE <<>>

\* Mutant: the channel count is not capped.
ChannelCount_NoCap(n) == n - E131HeaderSize

\* part_005:72-75  the number of channel bytes taken of a datagram of n bytes
ChannelCount(n) ==
    IF n - E131HeaderSize > E131MaxChannels
        THEN E131MaxChannels
        ELSE n - E131HeaderSize

\* part_005:70-78  the channel data; the nil slice is the empty sequence
ChannelDataOf(data) ==
    IF Len(data) > E131HeaderSize
        THEN Slice(data, E131HeaderSize,
                   E131HeaderSize + ChannelCount(Len(data)))
        ELSE <<>>

\* part_005:10-81  Parse(data) when the clock reads `at`: the error, or the
\* Packet
Parse(data, at) ==
    IF Validate(data).err # ""
        THEN Validate(data)
        ELSE [called |-> TRUE, err |-> "", offset |-> 0,
              packet |-> [ReceivedAt |-> at,
                          CID |-> Slice(data, 22, 38),
                          SourceName |-> SourceNameOf(data),
                          Priority |-> ByteAt(data, 108),
                          Sequence |-> ByteAt(data, 111),
                          Universe |-> Uint16(Slice(data, 113, 115)),
                          StartCode |-> ByteAt(data, 125),
                          ChannelData |-> ChannelDataOf(data)]]

\* The byte at offset i of the header of a well-formed data packet.
HeaderByte(i, universe, sequence, name) ==
    CASE i = 1 -> 16
      [] i \in 4..15 -> ACNPacketIdentifier[i - 3]
      [] i = 21 -> 4
      [] i \in 22..37 -> 18
      [] i = 43 -> 2
      [] i \in 44..107 -> IF i - 43 <= Len(name) THEN name[i - 43] ELSE 0
      [] i = 108 -> 100
      [] i = 111 -> sequence
      [] i = 113 -> universe \div 256
      [] i = 114 -> universe % 256
      [] i = 117 -> 2
      [] OTHER -> 0

\* Where a field of `Fields` is damaged, and the byte put there.
Damage(field) ==
    CASE field = "preamble" -> <<1, 17>>
      [] field = "acn" -> <<15, 1>>
      [] field = "root" -> <<20, 1>>
      [] field = "framing" -> <<40, 1>>
      [] field = "dmp" -> <<117, 3>>

\* The channel byte at index k of the datagrams offered.
ChannelByte(k) == (k * 7 + 1) % 256

\* A datagram as it comes off the socket: a data packet with `channels`
\* channel bytes, the fields of `corrupted` damaged, cut to `cut` bytes.
Datagram(universe, sequence, name, corrupted, channels, cut) ==
    [bytes |->
        [k \in 1..cut |->
            IF k > E131HeaderSize
                THEN ChannelByte(k - E131HeaderSize - 1)
            ELSE IF \E f \in corrupted : Damage(f)[1] = k - 1
                THEN Damage(CHOOSE f \in corrupted : Damage(f)[1] = k - 1)[2]
            ELSE HeaderByte(k - 1, universe, sequence, name)],
     corrupted |-> corrupted, channels |-> channels, cut |-> cut]

\* The datagrams Parse is checked on.
ParseInputs ==
    {Datagram(258, 7, name, corrupted, channels, E131HeaderSize + channels) :
        name \in WireNames, corrupted \in SUBSET Fields,
        channels \in ChannelLengths}
    \cup {Datagram(258, 7, <<97>>, corrupted, 0, cut) :
              corrupted \in SUBSET Fields, cut \in ShortLengths}

\* part_006:133  packet, err := Parse(buf[:n])
ParseDatagram ==
    /\ ~parsed.called
    /\ parsed' = Parse(datagram.bytes, now)
    /\ UNCHANGED datagram

\* ----------------------------------------------------------------- queries

\* universe.go:70-74  the array of channels, returned by value
GetAllChannels(u) == u.Channels

\* universe.go:102-115  the UniverseInfo built from the fields
GetInfo(u) ==
    [ID |-> u.ID, SourceName |-> u.SourceName, SourceCID |-> u.SourceCID,
     Priority |-> u.Priority, LastSequence |-> u.LastSequence,
     LastPacket |-> u.LastPacket, PacketCount |-> u.PacketCount]

\* The queries of the Manager, the Tracker and the Universe.
Queries ==
    {"Get", "GetAll", "GetActiveUniverses", "GetUniverseStats", "GetSources",
     "GetChannel", "GetAllChannels", "GetInfo"}

\* What query q about universe id returns.  Get, GetAll and
\* GetActiveUniverses return the *Universe of the map, an address of the
\* heap (part_003:37-41, 44-59, 62-78); GetUniverseStats returns the
\* *UniverseStats of the tracker's map, named here by the universe ID it is
\* kept under (tracker.go:150-155); the others return values built under
\* the read lock (tracker.go:290-308, universe.go:59-74, 102-115).
Returned(q, id) ==
    CASE q = "Get" -> Get(id)
      [] q = "GetAll" -> GetAll
      [] q = "GetActiveUniverses" -> GetActiveUniverses(1)
      [] q = "GetUniverseStats" ->
            IF id \in DOMAIN universes THEN <<id>> ELSE <<>>
      [] q = "GetSources" -> GetSources(id)
      [] q = "GetChannel" -> GetChannel(heap[manager[id]], 0)
      [] q = "GetAllChannels" -> GetAllChannels(heap[manager[id]])
      [] q = "GetInfo" -> GetInfo(heap[manager[id]])

\* What the caller reads in the value v it got from query q: the fields of
\* the objects a pointer leads to as they are now, and a value as it is.
ReadIn(q, v) ==
    CASE q = "Get" -> IF v = Nil THEN <<>> ELSE <<heap[v]>>
      [] q \in {"GetAll", "GetActiveUniverses"} ->
            [k \in DOMAIN v |-> heap[v[k]]]
      [] q = "GetUniverseStats" ->
            IF v = <<>> THEN <<>> ELSE GetUniverseStats(v[1])
      [] OTHER -> v

\* A caller makes query q about universe id and reads the result; the
\* methods of a Universe are called on one the manager holds.
Query(q, id) ==
    /\ held = NotHeld
    /\ q \in {"GetChannel", "GetAllChannels", "GetInfo"}
          => id \in DOMAIN manager
    /\ held' = [query |-> q, value |-> <<Returned(q, id)>>,
                seen |-> <<ReadIn(q, Returned(q, id))>>]

\* ---------------------------------------------------------------- receiver

\* part_006:24  the capacity of the packet channel
QueueCapacity == 1000

\* Mutant: a packet offered to a full channel is queued all the same.
Offer_Unbounded(packets, packet) == Append(packets, packet)

\* part_006:142-146  the channel after the non-blocking send of packet
Offer(packets, packet) ==
    IF Len(packets) < QueueCapacity THEN Append(packets, packet) ELSE packets

\* part_006:113-118  the select at the top of the loop.  With the context
\* cancelled the loop calls Stop (part_006:151-160), which waits for r.mu,
\* closes the socket, and returns.
LoopSelect(i) ==
    /\ loop[i].at = "select"
    /\ IF ctxDone
           THEN /\ CanLock(receiver.mu)
                /\ sockets' = IF receiver.rawConn # Nil
                                  THEN [sockets EXCEPT
                                           ![receiver.rawConn] = "closed"]
                                  ELSE sockets
                /\ receiver' = [receiver EXCEPT !.rawConn = Nil,
                                                !.started = FALSE]
                /\ loop' = [loop EXCEPT ![i].at = "done"]
           ELSE /\ loop' = [loop EXCEPT ![i].at = "read"]
                /\ UNCHANGED <<receiver, sockets>>
    /\ UNCHANGED <<datagram, parsed, wire>>

\* part_006:120  r.conn.ReadFrom(buf) returns the datagram dg that arrived
LoopRead(i, dg) ==
    /\ loop[i].at = "read"
    /\ receiver.conn # Nil
    /\ sockets[receiver.conn] = "open"
    /\ datagram' = dg
    /\ parsed' = NotParsed
    /\ wire' = [wire EXCEPT !.read = @ + 1]
    /\ loop' = [loop EXCEPT ![i].at = "parse"]
    /\ UNCHANGED <<receiver, sockets>>

\* part_006:120-130  ReadFrom returns an error, as it does at once on a
\* closed socket: the loop returns when the context is cancelled and goes
\* on otherwise
LoopReadError(i) ==
    /\ loop[i].at = "read"
    /\ receiver.conn # Nil
    /\ sockets[receiver.conn] = "closed"
    /\ loop' = [loop EXCEPT ![i].at = IF ctxDone THEN "done" ELSE "select"]
    /\ UNCHANGED <<datagram, parsed, receiver, sockets, wire>>

\* part_006:133-139  Parse(buf[:n]); an invalid datagram is dropped
LoopParse(i) ==
    /\ loop[i].at = "parse"
    /\ parsed' = Parse(datagram.bytes, now)
    /\ IF parsed'.err # ""
           THEN /\ loop' = [loop EXCEPT ![i].at = "select"]
                /\ UNCHANGED wire
           ELSE /\ loop' = [loop EXCEPT ![i].at = "offer"]
                /\ wire' = [wire EXCEPT !.decoded = @ + 1]
    /\ UNCHANGED <<datagram, receiver, sockets>>

\* part_006:141-146  the packet, numbered in decode order, is sent to the
\* channel if there is room
LoopOffer(i) ==
    /\ loop[i].at = "offer"
    /\ receiver' = [receiver EXCEPT
                       !.packets = Offer(@, [n |-> wire.decoded,
                                             packet |-> parsed.packet])]
    /\ loop' = [loop EXCEPT ![i].at = "select"]
    /\ UNCHANGED <<datagram, parsed, sockets, wire>>

\* A thread calls Start or Stop.
ReceiverBegin(t, op) ==
    /\ pc[t].at = "idle"
    /\ pc' = [pc EXCEPT ![t] = [at |-> "lock", op |-> op, id |-> 0,
                                result |-> Nil]]
    /\ calls' = calls + 1
    /\ UNCHANGED <<receiver, sockets, loop, startLog>>

\* part_006:35, 152  r.mu.Lock()
ReceiverLock(t) ==
    /\ pc[t].at = "lock"
    /\ pc[t].op \in {"Start", "Stop"}
    /\ CanLock(receiver.mu)
    /\ receiver' = [receiver EXCEPT !.mu.writer = t]
    /\ pc' = [pc EXCEPT ![t].at = IF pc[t].op = "Start" THEN "check"
                                                        ELSE "close"]
    /\ UNCHANGED <<sockets, loop, startLog, calls>>

\* part_006:36  if r.started
StartCheck(t) ==
    /\ pc[t].at = "check"
    /\ pc' = [pc EXCEPT ![t].at = IF receiver.started THEN "refuse" ELSE "set"]
    /\ startLog' = Append(startLog,
                          [thread |-> t, refused |-> receiver.started])
    /\ UNCHANGED <<receiver, sockets, loop, calls>>

\* part_006:37-38  unlock and return "receiver already started"
StartRefuse(t) ==
    /\ pc[t].at = "refuse"
    /\ receiver' = [receiver EXCEPT !.mu.writer = 0]
    /\ pc' = [pc EXCEPT ![t] = Idle]
    /\ UNCHANGED <<sockets, loop, startLog, calls>>

\* part_006:40-41  r.started = true, and unlock
StartSet(t) ==
    /\ pc[t].at = "set"
    /\ receiver' = [receiver EXCEPT !.started = TRUE, !.mu.writer = 0]
    /\ pc' = [pc EXCEPT ![t].at = "listen"]
    /\ UNCHANGED <<sockets, loop, startLog, calls>>

\* part_006:44-47  net.ListenPacket on port 5568: a new open socket, which
\* the port allows when no socket is bound to it; or an error, with which
\* Start returns
StartListen(t, ok) ==
    /\ pc[t].at = "listen"
    /\ IF ok
           THEN /\ \A k \in DOMAIN sockets : sockets[k] = "closed"
                /\ sockets' = Append(sockets, "open")
                /\ pc' = [pc EXCEPT ![t].at = "assign",
                                    ![t].result = Len(sockets) + 1]
           ELSE /\ pc' = [pc EXCEPT ![t] = Idle]
                /\ UNCHANGED sockets
    /\ UNCHANGED <<receiver, loop, startLog, calls>>

\* part_006:48-61  r.rawConn = conn and r.conn = ipv4.NewPacketConn(conn),
\* with no lock held
StartAssign(t) ==
    /\ pc[t].at = "assign"
    /\ receiver' = [receiver EXCEPT !.rawConn = pc[t].result,
                                    !.conn = pc[t].result]
    /\ pc' = [pc EXCEPT ![t].at = "spawn"]
    /\ UNCHANGED <<sockets, loop, startLog, calls>>

\* part_006:64-66  go r.readPackets(ctx), and return nil
StartSpawn(t) ==
    /\ pc[t].at = "spawn"
    /\ loop' = Append(loop, [at |-> "select"])
    /\ pc' = [pc EXCEPT ![t] = Idle]
    /\ UNCHANGED <<receiver, sockets, startLog, calls>>

\* part_006:155-159  Stop closes the socket and clears rawConn and started
StopClose(t) ==
    /\ pc[t].at = "close"
    /\ sockets' = IF receiver.rawConn # Nil
                      THEN [sockets EXCEPT ![receiver.rawConn] = "closed"]
                      ELSE sockets
    /\ receiver' = [receiver EXCEPT !.rawConn = Nil, !.started = FALSE]
    /\ pc' = [pc EXCEPT ![t].at = "unlock"]
    /\ UNCHANGED <<loop, startLog, calls>>

\* part_006:153  the deferred r.mu.Unlock(), and the return
StopUnlock(t) ==
    /\ pc[t].at = "unlock"
    /\ pc[t].op = "Stop"
    /\ receiver' = [receiver EXCEPT !.mu.writer = 0]
    /\ pc' = [pc EXCEPT ![t] = Idle]
    /\ UNCHANGED <<sockets, loop, startLog, calls>>

\* Mutant: a receive leaves the packet in the channel.
Dequeue_Peek(packets) == packets

\* main.go:44  the channel after a receive
Dequeue(packets) == Tail(packets)

\* main.go:44  for packet := range receiver.Packets(): the ingestion loop
\* receives the oldest packet of the channel; on an empty channel it waits,
\* and leaves the loop if the channel is closed
IngestTake ==
    /\ ingest.at = "take"
    /\ IF receiver.packets # <<>>
           THEN /\ ingest' = [at |-> "universe",
                              packet |-> Head(receiver.packets)]
                /\ receiver' = [receiver EXCEPT !.packets = Dequeue(@)]
                /\ wire' = [wire EXCEPT
                               !.taken = Append(@, Head(receiver.packets).n)]
           ELSE /\ receiver.closed
                /\ ingest' = [at |-> "done", packet |-> <<>>]
                /\ UNCHANGED <<receiver, wire>>

\* The universes and the statistics hold a source name as a string and
\* name a CID by a number: the string of the name bytes of a packet, for
\* the names the datagrams here carry, and the number of a CID of sixteen
\* equal bytes, which is that byte.
StringOf(name) ==
    CASE name = <<>> -> ""
      [] name = <<97>> -> "a"
      [] name = <<98>> -> "b"

CIDOf(cid) == cid[1]

\* main.go:46-53  GetOrCreate and Update with the packet
IngestUniverse ==
    /\ ingest.at = "universe"
    /\ Ingest(ingest.packet.packet.Universe,
              ingest.packet.packet.ChannelData,
              [sourceName |-> StringOf(ingest.packet.packet.SourceName),
               sourceCID |-> CIDOf(ingest.packet.packet.CID),
               priority |-> ingest.packet.packet.Priority,
               sequence |-> ingest.packet.packet.Sequence])
    /\ ingest' = [ingest EXCEPT !.at = "stats"]
    /\ wire' = [wire EXCEPT !.toManager = Append(@, ingest.packet.n)]

\* main.go:56-61  RecordPacket with the packet
IngestStats ==
    /\ ingest.at = "stats"
    /\ RecordPacket(ingest.packet.packet.Universe,
                    CIDOf(ingest.packet.packet.CID),
                    StringOf(ingest.packet.packet.SourceName),
                    ingest.packet.packet.Sequence)
    /\ ingest' = Waiting
    /\ wire' = [wire EXCEPT !.toTracker = Append(@, ingest.packet.n)]

\* ------------------------------------------- threads and the locks they take

\* Thread t calls Update, or one of the queries GetChannel, GetAllChannels,
\* ActiveChannelCount, IsStale and GetInfo, on the Universe at addr, which a
\* GetOrCreate or a Get returned to it at some time.
UniverseBegin(t, op, addr) ==
    /\ pc[t].at = "idle"
    /\ pc' = [pc EXCEPT ![t] = [at |-> IF op = "Update" THEN "uLock"
                                                         ELSE "uRLock",
                                op |-> op, id |-> addr, result |-> 0]]
    /\ calls' = calls + 1
    /\ UNCHANGED <<universes, manager, heap, managerMu, trackerMu, statsMu>>

\* universe.go:37  u.mu.Lock()
UniverseLock(t) ==
    /\ pc[t].at = "uLock"
    /\ CanLock(heap[pc[t].id].mu)
    /\ heap' = [heap EXCEPT ![pc[t].id].mu.writer = t]
    /\ pc' = [pc EXCEPT ![t].at = "uBody"]
    /\ UNCHANGED <<universes, manager, managerMu, trackerMu, statsMu, calls>>

\* universe.go:40-56  the body of Update
UniverseBody(t, channelData, sender) ==
    /\ pc[t].at = "uBody"
    /\ heap' = [heap EXCEPT
                   ![pc[t].id] = UpdateOn(@, channelData, sender, now)]
    /\ pc' = [pc EXCEPT ![t].at = "uUnlock"]
    /\ UNCHANGED <<universes, manager, managerMu, trackerMu, statsMu, calls>>

\* Mutant: Update returns with u.mu still locked.
UniverseUnlock_Forgets(t) ==
    /\ pc[t].at = "uUnlock"
    /\ pc' = [pc EXCEPT ![t] = Idle]
    /\ UNCHANGED <<universes, manager, heap, managerMu, trackerMu, statsMu,
                   calls>>

\* universe.go:38  the deferred u.mu.Unlock(), and the return
UniverseUnlock(t) ==
    /\ pc[t].at = "uUnlock"
    /\ heap' = [heap EXCEPT ![pc[t].id].mu.writer = 0]
    /\ pc' = [pc EXCEPT ![t] = Idle]
    /\ UNCHANGED <<universes, manager, managerMu, trackerMu, statsMu, calls>>

\* universe.go:60, 71, 78, 92, 103  u.mu.RLock()
UniverseRLock(t) ==
    /\ pc[t].at = "uRLock"
    /\ CanRLock(heap[pc[t].id].mu)
    /\ heap' = [heap EXCEPT ![pc[t].id].mu.readers = @ \cup {t}]
    /\ pc' = [pc EXCEPT ![t].at = "uRead"]
    /\ UNCHANGED <<universes, manager, managerMu, trackerMu, statsMu, calls>>

\* universe.go:61-66, 72-73, 79-87, 93-98, 104-114  the reads of the query,
\* the deferred u.mu.RUnlock(), and the return
UniverseRUnlock(t) ==
    /\ pc[t].at = "uRead"
    /\ heap' = [heap EXCEPT ![pc[t].id].mu.readers = @ \ {t}]
    /\ pc' = [pc EXCEPT ![t] = Idle]
    /\ UNCHANGED <<universes, manager, managerMu, trackerMu, statsMu, calls>>

\* Thread t calls GetActiveUniverses(timeout) or PruneStale(timeout).
ScanBegin(t, op, timeout) ==
    /\ pc[t].at = "idle"
    /\ pc' = [pc EXCEPT
                 ![t] = [at |-> "scanLock", op |-> op, id |-> 0,
                         result |-> [left |-> {}, timeout |-> timeout]]]
    /\ calls' = calls + 1
    /\ UNCHANGED <<universes, manager, heap, managerMu, trackerMu, statsMu>>

\* part_003:63, 96  m.mu.RLock() of GetActiveUniverses, m.mu.Lock() of
\* PruneStale; the range that follows is over the entries of the map
ScanLock(t) ==
    /\ pc[t].at = "scanLock"
    /\ IF pc[t].op = "PruneStale"
           THEN /\ CanLock(managerMu)
                /\ managerMu' = [managerMu EXCEPT !.writer = t]
           ELSE /\ CanRLock(managerMu)
                /\ managerMu' = [managerMu EXCEPT !.readers = @ \cup {t}]
    /\ pc' = [pc EXCEPT ![t].at = "scan",
                        ![t].result.left = DOMAIN manager]
    /\ UNCHANGED <<universes, manager, heap, trackerMu, statsMu, calls>>

\* part_003:67, 100  the range hands out the next entry, in any order
ScanNext(t, id) ==
    /\ pc[t].at = "scan"
    /\ id \in pc[t].result.left
    /\ pc' = [pc EXCEPT ![t].at = "staleRLock", ![t].id = id]
    /\ UNCHANGED <<universes, manager, heap, managerMu, trackerMu, statsMu,
                   calls>>

\* part_003:68, 101  u.IsStale(timeout) starts: universe.go:92  u.mu.RLock()
ScanRLock(t) ==
    /\ pc[t].at = "staleRLock"
    /\ CanRLock(heap[manager[pc[t].id]].mu)
    /\ heap' = [heap EXCEPT ![manager[pc[t].id]].mu.readers = @ \cup {t}]
    /\ pc' = [pc EXCEPT ![t].at = "stale"]
    /\ UNCHANGED <<universes, manager, managerMu, trackerMu, statsMu, calls>>

\* universe.go:93-98  IsStale reads LastPacket, unlocks and returns;
\* part_003:101-104  PruneStale deletes the entry of a stale universe
ScanStale(t) ==
    LET addr == manager[pc[t].id]
        stale == IsStale(heap[addr], pc[t].result.timeout, now)
    IN
    /\ pc[t].at = "stale"
    /\ heap' = [heap EXCEPT ![addr].mu.readers = @ \ {t}]
    /\ manager' = IF pc[t].op = "PruneStale" /\ stale
                      THEN [i \in DOMAIN manager \ {pc[t].id} |-> manager[i]]
                      ELSE manager
    /\ pc' = [pc EXCEPT ![t].at = "scan",
                        ![t].result.left = @ \ {pc[t].id}]
    /\ UNCHANGED <<universes, managerMu, trackerMu, statsMu, calls>>

\* part_003:64, 97  after the range: the deferred m.mu.RUnlock() or
\* m.mu.Unlock(), and the return
ScanUnlock(t) ==
    /\ pc[t].at = "scan"
    /\ pc[t].result.left = {}
    /\ managerMu' = IF pc[t].op = "PruneStale"
                        THEN [managerMu EXCEPT !.writer = 0]
                        ELSE [managerMu EXCEPT !.readers = @ \ {t}]
    /\ pc' = [pc EXCEPT ![t] = Idle]
    /\ UNCHANGED <<universes, manager, heap, trackerMu, statsMu, calls>>

\* Thread t calls ResetUniverseStats(universeID) or ResetAllStats(), or
\* one of the queries: GetPacketRate, which stands for the queries that read
\* the record of universeID, or GetAllUniverseIDs, which reads the map only.
TrackerBegin(t, op, universeID) ==
    /\ pc[t].at = "idle"
    /\ pc' = [pc EXCEPT
                 ![t] = [at |-> IF op \in {"ResetUniverseStats",
                                           "ResetAllStats"}
                                   THEN "tLock" ELSE "tRLock",
                         op |-> op, id |-> universeID, result |-> 0]]
    /\ calls' = calls + 1
    /\ UNCHANGED <<universes, manager, heap, managerMu, trackerMu, statsMu>>

\* tracker.go:265, 284  t.mu.Lock()
TrackerLock(t) ==
    /\ pc[t].at = "tLock"
    /\ CanLock(trackerMu)
    /\ trackerMu' = [trackerMu EXCEPT !.writer = t]
    /\ pc' = [pc EXCEPT ![t].at = IF pc[t].op = "ResetAllStats"
                                     THEN "resetAll" ELSE "resetLookup"]
    /\ UNCHANGED <<universes, manager, heap, managerMu, statsMu, calls>>

\* tracker.go:287  t.universes = make(map[uint16]*UniverseStats)
ResetAllBody(t) ==
    /\ pc[t].at = "resetAll"
    /\ universes' = NewTracker
    /\ pc' = [pc EXCEPT ![t].at = "tUnlock"]
    /\ UNCHANGED <<manager, heap, managerMu, trackerMu, statsMu, calls>>

\* tracker.go:268  if stats, exists := t.universes[universeID]; exists
ResetLookup(t) ==
    /\ pc[t].at = "resetLookup"
    /\ pc' = [pc EXCEPT ![t].at = IF pc[t].id \in DOMAIN universes
                                     THEN "resetLockStats" ELSE "tUnlock"]
    /\ UNCHANGED <<universes, manager, heap, managerMu, trackerMu, statsMu,
                   calls>>

\* tracker.go:269  stats.mu.Lock(), with t.mu held
ResetLockStats(t) ==
    /\ pc[t].at = "resetLockStats"
    /\ CanLock(statsMu[pc[t].id])
    /\ statsMu' = [statsMu EXCEPT ![pc[t].id].writer = t]
    /\ pc' = [pc EXCEPT ![t].at = "resetBody"]
    /\ UNCHANGED <<universes, manager, heap, managerMu, trackerMu, calls>>

\* tracker.go:270-278  the counters are cleared, and stats.mu.Unlock()
ResetBody(t) ==
    /\ pc[t].at = "resetBody"
    /\ universes' = ResetUniverseStatsOn(universes, pc[t].id)
    /\ statsMu' = [statsMu EXCEPT ![pc[t].id].writer = 0]
    /\ pc' = [pc EXCEPT ![t].at = "tUnlock"]
    /\ UNCHANGED <<manager, heap, managerMu, trackerMu, calls>>

\* tracker.go:266, 285  the deferred t.mu.Unlock(), and the return
TrackerUnlock(t) ==
    /\ pc[t].at = "tUnlock"
    /\ trackerMu' = [trackerMu EXCEPT !.writer = 0]
    /\ pc' = [pc EXCEPT ![t] = Idle]
    /\ UNCHANGED <<universes, manager, heap, managerMu, statsMu, calls>>

\* tracker.go:159, 312  t.mu.RLock()
TrackerRLock(t) ==
    /\ pc[t].at = "tRLock"
    /\ CanRLock(trackerMu)
    /\ trackerMu' = [trackerMu EXCEPT !.readers = @ \cup {t}]
    /\ pc' = [pc EXCEPT ![t].at = "qLookup"]
    /\ UNCHANGED <<universes, manager, heap, managerMu, statsMu, calls>>

\* tracker.go:160-165  the lookup, t.mu.RUnlock(), and the return of 0 for
\* a universe that is not tracked; tracker.go:313-319  GetAllUniverseIDs
\* reads the keys, unlocks and returns
QueryLookup(t) ==
    /\ pc[t].at = "qLookup"
    /\ trackerMu' = [trackerMu EXCEPT !.readers = @ \ {t}]
    /\ pc' = [pc EXCEPT
                 ![t] = IF /\ pc[t].op = "GetPacketRate"
                           /\ pc[t].id \in DOMAIN universes
                            THEN [@ EXCEPT !.at = "qRLockStats"]
                            ELSE Idle]
    /\ UNCHANGED <<universes, manager, heap, managerMu, statsMu, calls>>

\* tracker.go:167  stats.mu.RLock()
QueryRLockStats(t) ==
    /\ pc[t].at = "qRLockStats"
    /\ CanRLock(statsMu[pc[t].id])
    /\ statsMu' = [statsMu EXCEPT ![pc[t].id].readers = @ \cup {t}]
    /\ pc' = [pc EXCEPT ![t].at = "qRead"]
    /\ UNCHANGED <<universes, manager, heap, managerMu, trackerMu, calls>>

\* tracker.go:168-181  the reads of the record, the deferred
\* stats.mu.RUnlock(), and the return
QueryRUnlockStats(t) ==
    /\ pc[t].at = "qRead"
    /\ statsMu' = [statsMu EXCEPT ![pc[t].id].readers = @ \ {t}]
    /\ pc' = [pc EXCEPT ![t] = Idle]
    /\ UNCHANGED <<universes, manager, heap, managerMu, trackerMu, calls>>

\* ---------------------------------------------------------- specifications

CanCall == calls < MaxCalls

Record ==
    \E tx \in Transmitters, s \in SeqValues :
        CanCall /\ RecordPacket(tx[1], tx[2], tx[3], s)
                /\ UNCHANGED <<managerVars, threadVars, receiverVars>>

ResetOne ==
    \E u \in UniverseIDs :
        CanCall /\ ResetUniverseStats(u) /\ UNCHANGED <<managerVars, threadVars, receiverVars>>

ResetAll == CanCall /\ ResetAllStats /\ UNCHANGED <<managerVars, threadVars, receiverVars>>

Tick ==
    \E d \in ClockSteps(lossWindowDuration) :
        CanCall /\ Advance(d) /\ UNCHANGED <<managerVars, threadVars, receiverVars>>

\* The tracker under any calls of its API, from a fresh tracker.
Next == Record \/ ResetOne \/ ResetAll \/ Tick

Spec == Init /\ [][Next]_vars

\* The sequence numbers a run carries: its first two calls range over every
\* 8-bit sequence number, later ones over SeqValues.
SeqsAt(k) == IF k < 2 THEN AllSeqs ELSE SeqValues

RecordSeq ==
    \E c \in CIDs, s \in SeqsAt(calls) :
        /\ calls < MaxRun
        /\ RecordPacket(1, c, "a", s)
        /\ UNCHANGED <<managerVars, threadVars, receiverVars>>

ResetSeq ==
    calls < MaxRun /\ ResetUniverseStats(1) /\ UNCHANGED <<managerVars, threadVars, receiverVars>>

\* Universe 1 under packets of any sequence number, and its reset.
NextSeq == RecordSeq \/ ResetSeq

SpecSeq == Init /\ [][NextSeq]_vars

trackerVars == <<universes, lastOp, before, recorded>>

UpdateUniverse ==
    \E shape \in PayloadShapes, sender \in Senders :
        /\ calls < MaxUpdates
        /\ Ingest(1, Payload(shape), sender)
        /\ UNCHANGED <<trackerVars, threadVars, receiverVars>>

TickUniverse ==
    calls < MaxUpdates /\ Advance(1) /\ UNCHANGED <<managerVars, threadVars, receiverVars>>

\* One universe under the data packets of two sources.
NextUniverse == UpdateUniverse \/ TickUniverse

SpecUniverse == Init /\ [][NextUniverse]_vars

CanOperate == calls < MaxOps

Create ==
    \E id \in UniverseIDs :
        CanOperate /\ GetOrCreate(id) /\ UNCHANGED <<trackerVars, threadVars, receiverVars>>

Data ==
    \E id \in UniverseIDs :
        /\ CanOperate
        /\ Ingest(id, Payload(<<1, 9>>), CHOOSE s \in Senders : TRUE)
        /\ UNCHANGED <<trackerVars, threadVars, receiverVars>>

RemoveOne ==
    \E id \in UniverseIDs :
        CanOperate /\ Remove(id) /\ UNCHANGED <<trackerVars, threadVars, receiverVars>>

Prune ==
    \E timeout \in Timeouts :
        CanOperate /\ PruneStale(timeout) /\ UNCHANGED <<trackerVars, threadVars, receiverVars>>

TickManager == CanOperate /\ Advance(1) /\ UNCHANGED <<managerVars, threadVars, receiverVars>>

\* The manager under any calls of its API, data packets arriving meanwhile.
NextManager == Create \/ Data \/ RemoveOne \/ Prune \/ TickManager

SpecManager == Init /\ [][NextManager]_vars

\* main.go:46  universe := universeManager.GetOrCreate(packet.Universe):
\* the ingestion goroutine t holds the address returned
IngestGetOrCreate(t, id) ==
    /\ pc[t].at = "idle"
    /\ GetOrCreate(id)
    /\ pc' = [pc EXCEPT
                 ![t] = [at |-> "update", op |-> "Ingest", id |-> id,
                         result |-> GetOrCreateOn(manager, heap, id).result]]

\* main.go:47-53  universe.Update(...) on the address held
IngestUpdate(t, channelData, sender) ==
    /\ pc[t].at = "update"
    /\ Update(manager, heap, pc[t].result, channelData, sender)
    /\ pc' = [pc EXCEPT ![t] = Idle]

\* What a goroutine applying a packet leaves alone.
ingestFrame ==
    <<trackerVars, managerMu, trackerMu, statsMu, history, issued,
      receiverVars>>

GetsToApply ==
    \E t \in Threads, id \in UniverseIDs :
        CanOperate /\ IngestGetOrCreate(t, id) /\ UNCHANGED ingestFrame

AppliesHeld ==
    \E t \in Threads :
        /\ IngestUpdate(t, Payload(<<1, 9>>), CHOOSE s \in Senders : TRUE)
        /\ UNCHANGED ingestFrame

\* Goroutines that apply packets as main does, GetOrCreate and Update being
\* two calls, while Remove and PruneStale are called and time passes.  Each
\* call is one step: each holds its mutex from its first statement to its
\* last.
NextApply == GetsToApply \/ AppliesHeld \/ RemoveOne \/ Prune \/ TickManager

SpecApply == Init /\ [][NextApply]_vars

\* What the threads calling the manager leave alone.
managerThreadFrame ==
    <<trackerVars, now, mgrOp, mgrBefore, updated, trackerMu, statsMu, issued,
      receiverVars>>

ThreadCalls ==
    \E t \in Threads, op \in {"GetOrCreate", "Get", "Remove"},
       id \in UniverseIDs :
        /\ calls < MaxManagerCalls
        /\ Begin(t, op, id)
        /\ UNCHANGED managerThreadFrame

ThreadLocks ==
    \E t \in Threads : ManagerLock(t) /\ UNCHANGED managerThreadFrame

ThreadLooksUp ==
    \E t \in Threads : GetOrCreateLookup(t) /\ UNCHANGED managerThreadFrame

ThreadInserts ==
    \E t \in Threads : GetOrCreateInsert(t) /\ UNCHANGED managerThreadFrame

ThreadDeletes ==
    \E t \in Threads : RemoveDelete(t) /\ UNCHANGED managerThreadFrame

ThreadUnlocks ==
    \E t \in Threads : ManagerUnlock(t) /\ UNCHANGED managerThreadFrame

ThreadRLocks ==
    \E t \in Threads : ManagerRLock(t) /\ UNCHANGED managerThreadFrame

ThreadReads ==
    \E t \in Threads : GetRead(t) /\ UNCHANGED managerThreadFrame

ThreadRUnlocks ==
    \E t \in Threads : ManagerRUnlock(t) /\ UNCHANGED managerThreadFrame

\* The manager under threads calling GetOrCreate, Get and Remove, every
\* statement that takes or releases Manager.mu a step of its own.
NextManagerThreads ==
    \/ ThreadCalls \/ ThreadLocks \/ ThreadLooksUp \/ ThreadInserts
    \/ ThreadDeletes \/ ThreadUnlocks \/ ThreadRLocks \/ ThreadReads
    \/ ThreadRUnlocks

\* Parse on any datagram of ParseInputs.
InitParse ==
    /\ InitCore
    /\ datagram \in ParseInputs
    /\ parsed = NotParsed
    /\ receiver = NewReceiver
    /\ sockets = <<>>
    /\ ctxDone = FALSE
    /\ loop = <<>>
    /\ ingest = Waiting
    /\ wire = NoTraffic
    /\ startLog = <<>>
    /\ held = NotHeld

codecFrame ==
    <<universes, now, lastOp, before, recorded, calls, managerVars, threadVars,
      receiver, sockets, ctxDone, loop, ingest, wire, startLog, held>>

ParseOne == ParseDatagram /\ UNCHANGED codecFrame

NextParse == ParseOne

SpecParse == InitParse /\ [][NextParse]_vars

\* The datagrams the socket delivers: a data packet for universe 1, one
\* with a channel byte for universe 2, one that is a byte short, and one
\* for each field a check of Parse looks at, with that field damaged.
ReceiverInputs ==
    {Datagram(1, 7, <<97>>, {}, 0, E131HeaderSize),
     Datagram(2, 8, <<97>>, {}, 1, E131HeaderSize + 1),
     Datagram(1, 9, <<97>>, {}, 0, E131HeaderSize - 1)}
    \cup {Datagram(1, 9, <<97>>, {field}, 0, E131HeaderSize) :
              field \in Fields}

\* The packets of a burst the ingestion loop has not taken yet: decoded
\* from data packets for universe 1, numbered 1..n in decode order.
Backlog(n) ==
    [k \in 1..n |->
        [n |-> k,
         packet |-> Parse(Datagram(1, k % 256, <<97>>, {}, 0,
                                   E131HeaderSize).bytes, 0).packet]]

\* The receiver after Start (part_006:34-67) returned nil: socket 1 is open
\* and its read loop at the top; the channel is empty, or holds a burst of
\* one packet less than its capacity.
Running(n) ==
    /\ InitCore
    /\ datagram = NoDatagram
    /\ parsed = NotParsed
    /\ receiver = [NewReceiver EXCEPT !.packets = Backlog(n),
                                      !.conn = 1, !.rawConn = 1,
                                      !.started = TRUE]
    /\ wire = [NoTraffic EXCEPT !.read = n, !.decoded = n]
    /\ sockets = <<"open">>
    /\ ctxDone = FALSE
    /\ loop = <<[at |-> "select"]>>
    /\ ingest = Waiting
    /\ startLog = <<[thread |-> 0, refused |-> FALSE]>>
    /\ held = NotHeld

InitRunning == \E n \in {0, QueueCapacity - 1} : Running(n)

\* What the read loop leaves alone.
loopFrame ==
    <<universes, now, lastOp, before, recorded, calls, managerVars, threadVars,
      ctxDone, ingest, startLog, held>>

\* The datagrams read in this run, the burst before it not counted.
ReadHere == wire.read - (IF wire.read >= QueueCapacity - 1
                             THEN QueueCapacity - 1 ELSE 0)

Selects == \E i \in DOMAIN loop : LoopSelect(i) /\ UNCHANGED loopFrame

Reads ==
    \E i \in DOMAIN loop, dg \in ReceiverInputs :
        /\ ReadHere < MaxDatagrams
        /\ LoopRead(i, dg)
        /\ UNCHANGED loopFrame

ReadErrors == \E i \in DOMAIN loop : LoopReadError(i) /\ UNCHANGED loopFrame

Parses == \E i \in DOMAIN loop : LoopParse(i) /\ UNCHANGED loopFrame

Offers == \E i \in DOMAIN loop : LoopOffer(i) /\ UNCHANGED loopFrame

Takes ==
    /\ Len(wire.taken) < MaxTakes
    /\ IngestTake
    /\ UNCHANGED <<universes, now, lastOp, before, recorded, calls,
                   managerVars, threadVars, datagram, parsed, sockets,
                   ctxDone, loop, startLog, held>>

AppliesToManager ==
    /\ IngestUniverse
    /\ UNCHANGED <<trackerVars, threadVars, datagram, parsed, receiver,
                   sockets, ctxDone, loop, startLog, held>>

AppliesToTracker ==
    /\ IngestStats
    /\ UNCHANGED <<managerVars, threadVars, datagram, parsed, receiver,
                   sockets, ctxDone, loop, startLog, held>>

\* The running receiver and the ingestion loop of main.
NextReceiver ==
    \/ Selects \/ Reads \/ Parses \/ Offers
    \/ Takes \/ AppliesToManager \/ AppliesToTracker

SpecReceiver == InitRunning /\ [][NextReceiver]_vars

\* The ingestion goroutine of main is scheduled: a packet it took is applied.
SpecReceiverFair ==
    /\ SpecReceiver
    /\ WF_vars(AppliesToManager)
    /\ WF_vars(AppliesToTracker)

\* main.go:31-34  the signal arrives and the goroutine calls cancel()
Cancels ==
    /\ ~ctxDone
    /\ ctxDone' = TRUE
    /\ UNCHANGED <<universes, now, lastOp, before, recorded, calls,
                   managerVars, threadVars, datagram, parsed, receiver,
                   sockets, loop, ingest, wire, startLog, held>>

\* The running receiver, the datagrams that arrive, and the cancellation.
NextShutdown == Selects \/ Reads \/ Parses \/ Offers \/ Cancels

\* The read loop is a goroutine the scheduler runs: each of its own steps
\* is taken when it stays possible.  Whether a datagram arrives, and
\* whether the signal does, is up to the environment.
SpecShutdown ==
    /\ Running(0)
    /\ [][NextShutdown]_vars
    /\ WF_vars(Selects)
    /\ WF_vars(Parses)
    /\ WF_vars(Offers)

\* The running receiver, the ingestion loop of main, and the cancellation.
NextIngestShutdown == NextReceiver \/ Cancels

\* The read loop and the ingestion loop are goroutines the scheduler runs:
\* each of their own steps is taken when it stays possible.
SpecIngestShutdown ==
    /\ Running(0)
    /\ [][NextIngestShutdown]_vars
    /\ WF_vars(Selects) /\ WF_vars(Parses) /\ WF_vars(Offers)
    /\ WF_vars(Takes) /\ WF_vars(AppliesToManager)
    /\ WF_vars(AppliesToTracker)

Asks ==
    \E q \in Queries, id \in UniverseIDs :
        /\ Query(q, id)
        /\ UNCHANGED <<universes, now, lastOp, before, recorded, calls,
                       managerVars, threadVars, datagram, parsed, receiver,
                       sockets, ctxDone, loop, ingest, wire, startLog>>

\* main.go:46-53  a packet is applied to its universe
UpdatesQueried ==
    \E id \in UniverseIDs :
        /\ calls < MaxApplied
        /\ Ingest(id, Payload(<<1, 9>>), CHOOSE s \in Senders : TRUE)
        /\ UNCHANGED <<trackerVars, threadVars, receiverVars>>

\* main.go:56-61  a packet is recorded in the statistics
RecordsQueried ==
    \E tx \in Transmitters :
        /\ calls < MaxApplied
        /\ RecordPacket(tx[1], tx[2], tx[3], calls)
        /\ UNCHANGED <<managerVars, threadVars, receiverVars>>

\* A caller of the queries, while packets are applied to the universes and
\* to the statistics.
NextQueries == Asks \/ UpdatesQueried \/ RecordsQueried

SpecQueries == Init /\ [][NextQueries]_vars

\* What the threads recording for one universe leave alone.
sharedFrame ==
    <<lastOp, before, recorded, managerVars, managerMu, receiverVars>>

SharedRecords ==
    \E t \in Threads, packet \in ThreadPackets :
        /\ calls < MaxSharedCalls
        /\ RecordBeginOn(t, 1, packet[1], packet[2], packet[3])
        /\ UNCHANGED <<now, history, sharedFrame>>

SharedLocksMap ==
    \E t \in Threads : RecordLockMap(t) /\ UNCHANGED <<now, history, sharedFrame>>

SharedLooksUp ==
    \E t \in Threads : RecordLookup(t) /\ UNCHANGED <<now, history, sharedFrame>>

SharedInserts ==
    \E t \in Threads : RecordInsert(t) /\ UNCHANGED <<now, history, sharedFrame>>

SharedUnlocksMap ==
    \E t \in Threads :
        RecordUnlockMap(t) /\ UNCHANGED <<now, history, sharedFrame>>

SharedLocksStats ==
    \E t \in Threads :
        RecordLockStats(t) /\ UNCHANGED <<now, history, sharedFrame>>

SharedReads == \E t \in Threads : RecordRead(t) /\ UNCHANGED <<now, sharedFrame>>

SharedWrites == \E t \in Threads : RecordWrite(t) /\ UNCHANGED <<now, sharedFrame>>

SharedUnlocksStats ==
    \E t \in Threads :
        RecordUnlockStats(t) /\ UNCHANGED <<now, history, sharedFrame>>

\* The clock passes the rate window.
SharedTick ==
    /\ now < MaxSharedClock
    /\ now' = now + rateWindow + 1
    /\ UNCHANGED <<universes, calls, threadVars, sharedFrame>>

\* The tracker under two threads calling RecordPacket for universe 1, the
\* body of the call as a step that reads and a step that writes.
NextSharedUniverse ==
    \/ SharedRecords \/ SharedLocksMap \/ SharedLooksUp \/ SharedInserts
    \/ SharedUnlocksMap \/ SharedLocksStats \/ SharedReads \/ SharedWrites
    \/ SharedUnlocksStats \/ SharedTick

SpecSharedUniverse == Init /\ [][NextSharedUniverse]_vars

\* What a Start or Stop call leaves alone.
startFrame ==
    <<universes, now, lastOp, before, recorded, managerVars, managerMu,
      trackerMu, statsMu, history, issued, datagram, parsed, ctxDone, ingest,
      wire, held>>

CallsReceiver ==
    \E t \in Threads, op \in {"Start", "Stop"} :
        /\ calls < MaxStartCalls
        /\ ReceiverBegin(t, op)
        /\ UNCHANGED startFrame

LocksReceiver == \E t \in Threads : ReceiverLock(t) /\ UNCHANGED startFrame

ChecksStarted == \E t \in Threads : StartCheck(t) /\ UNCHANGED startFrame

Refuses == \E t \in Threads : StartRefuse(t) /\ UNCHANGED startFrame

SetsStarted == \E t \in Threads : StartSet(t) /\ UNCHANGED startFrame

Listens ==
    \E t \in Threads, ok \in BOOLEAN :
        StartListen(t, ok) /\ UNCHANGED startFrame

Assigns == \E t \in Threads : StartAssign(t) /\ UNCHANGED startFrame

Spawns == \E t \in Threads : StartSpawn(t) /\ UNCHANGED startFrame

Closes == \E t \in Threads : StopClose(t) /\ UNCHANGED startFrame

UnlocksReceiver == \E t \in Threads : StopUnlock(t) /\ UNCHANGED startFrame

\* Threads calling Start and Stop on one receiver, and the read loops they
\* start, on a network that delivers nothing.
NextStart ==
    \/ CallsReceiver \/ LocksReceiver \/ ChecksStarted \/ Refuses
    \/ SetsStarted \/ Listens \/ Assigns \/ Spawns \/ Closes
    \/ UnlocksReceiver \/ Selects \/ ReadErrors

SpecStart == Init /\ [][NextStart]_vars

CallsStop ==
    \E t \in Threads :
        /\ calls < MaxStopCalls
        /\ ReceiverBegin(t, "Stop")
        /\ UNCHANGED startFrame

\* The running receiver, threads that call Stop on it, the datagrams that
\* arrive and the cancellation.
NextStop ==
    \/ CallsStop \/ LocksReceiver \/ Closes \/ UnlocksReceiver
    \/ Selects \/ Reads \/ ReadErrors \/ Parses \/ Offers \/ Cancels

\* The read loop is a goroutine the scheduler runs, and so is a thread in
\* Stop: each of their own steps is taken when it stays possible.  Whether
\* Stop is called, a datagram arrives or the signal does is up to the
\* environment.
SpecStop ==
    /\ Running(0)
    /\ [][NextStop]_vars
    /\ WF_vars(LocksReceiver) /\ WF_vars(Closes) /\ WF_vars(UnlocksReceiver)
    /\ WF_vars(Selects) /\ WF_vars(ReadErrors)
    /\ WF_vars(Parses) /\ WF_vars(Offers)

SpecManagerThreads == Init /\ [][NextManagerThreads]_vars

\* What the threads calling RecordPacket leave alone.
trackerThreadFrame ==
    <<now, lastOp, before, recorded, managerVars, managerMu, history,
      receiverVars>>

ThreadRecords ==
    \E t \in Threads, packet \in ThreadPackets :
        /\ calls < MaxRecordCalls
        /\ RecordBegin(t, packet[1], packet[2], packet[3])
        /\ UNCHANGED trackerThreadFrame

ThreadLocksMap ==
    \E t \in Threads : RecordLockMap(t) /\ UNCHANGED trackerThreadFrame

ThreadLooksUpStats ==
    \E t \in Threads : RecordLookup(t) /\ UNCHANGED trackerThreadFrame

ThreadInsertsStats ==
    \E t \in Threads : RecordInsert(t) /\ UNCHANGED trackerThreadFrame

ThreadUnlocksMap ==
    \E t \in Threads : RecordUnlockMap(t) /\ UNCHANGED trackerThreadFrame

ThreadLocksStats ==
    \E t \in Threads : RecordLockStats(t) /\ UNCHANGED trackerThreadFrame

ThreadCounts ==
    \E t \in Threads : RecordBody(t) /\ UNCHANGED trackerThreadFrame

ThreadUnlocksStats ==
    \E t \in Threads : RecordUnlockStats(t) /\ UNCHANGED trackerThreadFrame

\* The tracker under threads calling RecordPacket, each for its own
\* universe, every statement that takes or releases a mutex a step of its
\* own.
NextTrackerThreads ==
    \/ ThreadRecords \/ ThreadLocksMap \/ ThreadLooksUpStats
    \/ ThreadInsertsStats \/ ThreadUnlocksMap \/ ThreadLocksStats
    \/ ThreadCounts \/ ThreadUnlocksStats

SpecTrackerThreads == Init /\ [][NextTrackerThreads]_vars

\* What a call on a universe, a scan of the manager or a reset or query of
\* the tracker leaves alone.
lockFrame ==
    <<now, lastOp, before, recorded, mgrOp, mgrBefore, updated, history,
      issued, receiverVars>>

CanBegin == calls < MaxLockCalls

BeginsOnManager ==
    \E t \in Threads, op \in {"GetOrCreate", "Get", "Remove"},
       id \in UniverseIDs :
        CanBegin /\ Begin(t, op, id) /\ UNCHANGED managerThreadFrame

BeginsOnUniverse ==
    \E t \in Threads, op \in {"Update", "IsStale"}, addr \in DOMAIN heap :
        CanBegin /\ UniverseBegin(t, op, addr) /\ UNCHANGED lockFrame

BeginsScan ==
    \E t \in Threads, op \in {"GetActiveUniverses", "PruneStale"} :
        CanBegin /\ ScanBegin(t, op, 1) /\ UNCHANGED lockFrame

BeginsRecord ==
    \E t \in Threads, id \in UniverseIDs :
        /\ CanBegin
        /\ RecordBeginOn(t, id, 1, "a", 0)
        /\ UNCHANGED trackerThreadFrame

BeginsOnTracker ==
    \E t \in Threads, id \in UniverseIDs,
       op \in {"ResetUniverseStats", "ResetAllStats", "GetPacketRate",
               "GetAllUniverseIDs"} :
        CanBegin /\ TrackerBegin(t, op, id) /\ UNCHANGED lockFrame

LocksUniverse == \E t \in Threads : UniverseLock(t) /\ UNCHANGED lockFrame

UpdatesLocked ==
    \E t \in Threads :
        /\ UniverseBody(t, Payload(<<1, 9>>), CHOOSE s \in Senders : TRUE)
        /\ UNCHANGED lockFrame

UnlocksUniverse == \E t \in Threads : UniverseUnlock(t) /\ UNCHANGED lockFrame

RLocksUniverse == \E t \in Threads : UniverseRLock(t) /\ UNCHANGED lockFrame

RUnlocksUniverse ==
    \E t \in Threads : UniverseRUnlock(t) /\ UNCHANGED lockFrame

LocksForScan == \E t \in Threads : ScanLock(t) /\ UNCHANGED lockFrame

ScansNext ==
    \E t \in Threads, id \in UniverseIDs :
        ScanNext(t, id) /\ UNCHANGED lockFrame

RLocksScanned == \E t \in Threads : ScanRLock(t) /\ UNCHANGED lockFrame

ChecksStale == \E t \in Threads : ScanStale(t) /\ UNCHANGED lockFrame

UnlocksScan == \E t \in Threads : ScanUnlock(t) /\ UNCHANGED lockFrame

LocksTracker == \E t \in Threads : TrackerLock(t) /\ UNCHANGED lockFrame

ResetsAll == \E t \in Threads : ResetAllBody(t) /\ UNCHANGED lockFrame

LooksUpToReset == \E t \in Threads : ResetLookup(t) /\ UNCHANGED lockFrame

LocksToReset == \E t \in Threads : ResetLockStats(t) /\ UNCHANGED lockFrame

ResetsLocked == \E t \in Threads : ResetBody(t) /\ UNCHANGED lockFrame

UnlocksTracker == \E t \in Threads : TrackerUnlock(t) /\ UNCHANGED lockFrame

RLocksTracker == \E t \in Threads : TrackerRLock(t) /\ UNCHANGED lockFrame

LooksUpToQuery == \E t \in Threads : QueryLookup(t) /\ UNCHANGED lockFrame

RLocksStats == \E t \in Threads : QueryRLockStats(t) /\ UNCHANGED lockFrame

RUnlocksStats ==
    \E t \in Threads : QueryRUnlockStats(t) /\ UNCHANGED lockFrame

\* Threads calling the manager, the universes it handed out and the
\* tracker in any interleaving, every statement that takes or releases a
\* mutex a step of its own.
NextLocks ==
    \/ BeginsOnManager \/ BeginsOnUniverse \/ BeginsScan \/ BeginsRecord
    \/ BeginsOnTracker
    \/ ThreadLocks \/ ThreadLooksUp \/ ThreadInserts \/ ThreadDeletes
    \/ ThreadUnlocks \/ ThreadRLocks \/ ThreadReads \/ ThreadRUnlocks
    \/ LocksUniverse \/ UpdatesLocked \/ UnlocksUniverse \/ RLocksUniverse
    \/ RUnlocksUniverse
    \/ LocksForScan \/ ScansNext \/ RLocksScanned \/ ChecksStale
    \/ UnlocksScan
    \/ ThreadLocksMap \/ ThreadLooksUpStats \/ ThreadInsertsStats
    \/ ThreadUnlocksMap \/ ThreadLocksStats \/ ThreadCounts
    \/ ThreadUnlocksStats
    \/ LocksTracker \/ ResetsAll \/ LooksUpToReset \/ LocksToReset
    \/ ResetsLocked \/ UnlocksTracker \/ RLocksTracker \/ LooksUpToQuery
    \/ RLocksStats \/ RUnlocksStats

\* The program after GetOrCreate(1), an Update of that universe,
\* GetOrCreate(2) and a RecordPacket for universe 1, all returned: the
\* manager holds a universe with data and one without, the tracker one
\* record.  The logs of the calls start here.
InitLocks ==
    LET first == GetOrCreateOn(NewManager, <<>>, 1)
        second == GetOrCreateOn(first.manager, first.heap, 2)
    IN
    /\ universes = RecordPacketOn(NewTracker, 1, 1, "a", 0, 0)
    /\ now = 0
    /\ lastOp = NoCall
    /\ before = NewTracker
    /\ recorded = <<>>
    /\ calls = 0
    /\ manager = second.manager
    /\ heap = [second.heap EXCEPT
                  ![first.result] =
                      UpdateOn(@, Payload(<<1, 9>>),
                               CHOOSE s \in Senders : TRUE, 0)]
    /\ mgrOp = NoManagerCall
    /\ mgrBefore = [manager |-> NewManager, heap |-> <<>>]
    /\ updated = <<>>
    /\ pc = [t \in Threads |-> Idle]
    /\ managerMu = Unlocked
    /\ trackerMu = Unlocked
    /\ statsMu = [u \in UniverseIDs |-> Unlocked]
    /\ history = <<>>
    /\ issued = [t \in Threads |-> <<>>]
    /\ InitReceiver

SpecLocks == InitLocks /\ [][NextLocks]_vars

\* =================================================================== claims

\* What the last call was, and the records it worked on.
LastIsRecord == lastOp.op = "RecordPacket"
LastU == lastOp.universeID
LastC == lastOp.sourceCID

\* The universe of the last call was tracked when it was made.
UniverseBefore == LastU \in DOMAIN before
\* The source of the last call was tracked in that universe.
SourceBefore == UniverseBefore /\ LastC \in DOMAIN before[LastU].Sources
\* The source of the last call had a counted packet.
KnownBefore == SourceBefore /\ before[LastU].Sources[LastC].PacketCount > 0

UniLostBefore == IF UniverseBefore THEN before[LastU].LostPackets ELSE 0
UniCountBefore == IF UniverseBefore THEN before[LastU].PacketCount ELSE 0
SrcLostBefore ==
    IF SourceBefore THEN before[LastU].Sources[LastC].LostPackets ELSE 0
SrcCountBefore ==
    IF SourceBefore THEN before[LastU].Sources[LastC].PacketCount ELSE 0
SrcAfter == universes[LastU].Sources[LastC]
UniAfter == universes[LastU]
\* The loss event the last call appended.
EventAfter == UniAfter.lossWindow[Len(UniAfter.lossWindow)]

\* The distance from sequence number `from` forward to `to`, modulo 256.
ForwardDistance(from, to) == (to + 256 - from) % 256
\* The forward distance from the expected to the received sequence number
\* of the last call, for a source with a counted packet.
LastGap ==
    ForwardDistance((before[LastU].Sources[LastC].LastSequence + 1) % 256,
                    lastOp.sequence)

\* C1: when a source with a counted packet sends a sequence number at a
\* forward distance g from the expected one, 0 < g < 200, the LostPackets
\* of the source and of the universe both grow by exactly g.
C1_GapCountedAsLoss ==
    (LastIsRecord /\ KnownBefore /\ LastGap # 0 /\ LastGap < 200) =>
        /\ SrcAfter.LostPackets = SrcLostBefore + LastGap
        /\ UniAfter.LostPackets = UniLostBefore + LastGap

\* C1 witness: 254 then 1 has added 2 (255 and 0 are lost).
C1_Witness ==
    /\ LastIsRecord /\ KnownBefore
    /\ before[LastU].Sources[LastC].LastSequence = 254
    /\ lastOp.sequence = 1
    /\ SrcAfter.LostPackets = SrcLostBefore + 2
    /\ UniAfter.LostPackets = UniLostBefore + 2

\* The last call recorded 50 for a source whose last number was 100.
Last100Then50 ==
    /\ LastIsRecord /\ KnownBefore
    /\ before[LastU].Sources[LastC].LastSequence = 100
    /\ lastOp.sequence = 50

RecordedFor(u) == SelectSeq(recorded, LAMBDA r : r.universeID = u)

\* The recorded calls of u all come from source c, each with the sequence
\* number that follows its predecessor's modulo 256.
ConsecutiveRun(u, c) ==
    LET run == RecordedFor(u) IN
    /\ run # <<>>
    /\ \A i \in 1..Len(run) : run[i].sourceCID = c
    /\ \A i \in 1..(Len(run) - 1) :
           run[i + 1].sequence = (run[i].sequence + 1) % 256

\* C3: while the packets recorded for a universe are one source's run of
\* consecutive sequence numbers (255 -> 0 included), the lost counters of
\* the source and of the universe are 0 and the universe PacketCount is
\* the number of calls.
C3_ConsecutiveRunLosesNothing ==
    \A u \in UniverseIDs, c \in CIDs :
        ConsecutiveRun(u, c) =>
            /\ u \in DOMAIN universes
            /\ c \in DOMAIN universes[u].Sources
            /\ universes[u].LostPackets = 0
            /\ universes[u].Sources[c].LostPackets = 0
            /\ universes[u].PacketCount = Len(RecordedFor(u))

\* C3 witness: the run 255, 0, 1 of one source has been recorded.
C3_Witness ==
    /\ ConsecutiveRun(1, 1)
    /\ Len(RecordedFor(1)) = 3
    /\ RecordedFor(1)[1].sequence = 255
    /\ RecordedFor(1)[3].sequence = 1
    /\ universes[1].PacketCount = 3
    /\ universes[1].LostPackets = 0

\* C4: a packet of a source that was not tracked in the universe, or was
\* tracked with PacketCount = 0, adds no loss, whatever its sequence number.
C4_FirstPacketAddsNoLoss ==
    (LastIsRecord /\ ~KnownBefore) =>
        /\ SrcAfter.LostPackets = SrcLostBefore
        /\ UniAfter.LostPackets = UniLostBefore
        /\ EventAfter.Lost = 0

\* C4 witness: source 2 sends its first packet, number 77, to a universe
\* in which source 1 is at number 5.
C4_Witness ==
    /\ LastIsRecord /\ UniverseBefore /\ ~SourceBefore
    /\ LastC = 2 /\ lastOp.sequence = 77
    /\ before[LastU].Sources[1].LastSequence = 5
    /\ SrcAfter.PacketCount = 1
    /\ SrcAfter.LostPackets = 0
    /\ UniAfter.LostPackets = 0

\* C5: every RecordPacket call sets the source's LastSequence to the
\* received number and its name to the packet's, and adds exactly 1 to the
\* PacketCount of the source and of the universe.
C5_EveryCallTouchesSource ==
    LastIsRecord =>
        /\ SrcAfter.LastSequence = lastOp.sequence
        /\ SrcAfter.Name = lastOp.sourceName
        /\ SrcAfter.PacketCount = SrcCountBefore + 1
        /\ UniAfter.PacketCount = UniCountBefore + 1

\* C5 witness: a restart (3 then 0) that also renames the source.
C5_Witness ==
    /\ LastIsRecord /\ KnownBefore
    /\ before[LastU].Sources[LastC].LastSequence = 3
    /\ before[LastU].Sources[LastC].Name = "a"
    /\ lastOp.sequence = 0 /\ lastOp.sourceName = "b"
    /\ LastGap >= 200
    /\ SrcAfter.Name = "b" /\ SrcAfter.LastSequence = 0

\* The float f is exactly 100 * lost / (received + lost), or 0 when that
\* denominator is 0.
IsLossPercentage(f, received, lost) ==
    IF received + lost = 0
        THEN f = <<0, 1>>
        ELSE f[2] > 0 /\ f[1] * (received + lost) = 100 * lost * f[2]

\* The packets recorded for universe u are one source's 0 then 3.
Recorded0Then3(u) ==
    LET run == RecordedFor(u) IN
    /\ Len(run) = 2
    /\ run[1].sourceCID = run[2].sourceCID
    /\ run[1].sequence = 0 /\ run[2].sequence = 3

\* C6: GetLossPercentage(u) is 100 * LostPackets / (PacketCount +
\* LostPackets) of the universe's lifetime counters, 0 when u is not
\* tracked or that denominator is 0; after 0 then 3 it is exactly 50.
C6_LossPercentage ==
    \A u \in UniverseIDs :
        /\ u \notin DOMAIN universes => GetLossPercentage(u) = <<0, 1>>
        /\ u \in DOMAIN universes =>
              IsLossPercentage(GetLossPercentage(u),
                               universes[u].PacketCount,
                               universes[u].LostPackets)
        /\ Recorded0Then3(u) => GetLossPercentage(u) = <<50, 1>>

\* C6 witness: 0 then 3 recorded, 2 received and 2 lost, 50 per cent.
C6_Witness ==
    /\ Recorded0Then3(1)
    /\ universes[1].PacketCount = 2 /\ universes[1].LostPackets = 2
    /\ GetLossPercentage(1) = <<50, 1>>
    /\ GetLossPercentage(2) = <<0, 1>>

\* The recorded calls of u that are later than `cutoff`.
RecordedSince(u, cutoff) ==
    SelectSeq(RecordedFor(u), LAMBDA r : r.at > cutoff)

RECURSIVE LostOf(_)
LostOf(run) == IF run = <<>> THEN 0 ELSE Head(run).lost + LostOf(Tail(run))

\* C7: GetRecentLossPercentage(u) is the loss formula over the packets
\* recorded for u (since u's record was created or last reset) within the
\* last 60 seconds at query time, each counting received = 1 and lost =
\* its gap or 0; it is 0 for an untracked universe and an empty window.
\* Every RecordPacket appends one such event, stamped with its time.
C7_RecentLossPercentage ==
    /\ \A u \in UniverseIDs :
          LET recent == RecordedSince(u, now - lossWindowDuration) IN
          /\ u \notin DOMAIN universes =>
                GetRecentLossPercentage(u) = <<0, 1>>
          /\ IsLossPercentage(GetRecentLossPercentage(u),
                              Len(recent), LostOf(recent))
    /\ LastIsRecord =>
          /\ EventAfter.Timestamp = UniAfter.LastPacket
          /\ EventAfter.Received = 1
          /\ EventAfter.Lost =
                 IF KnownBefore /\ LastGap < 200 THEN LastGap ELSE 0

\* C7 witness: 0 recorded, then 3 recorded just under a minute later; one
\* tick on, the first event has left the window: 2 lost of 3 expected,
\* against 2 of 4 over the lifetime.
C7_Witness ==
    /\ Recorded0Then3(1)
    /\ Len(universes[1].lossWindow) = 2
    /\ Len(RecordedSince(1, now - lossWindowDuration)) = 1
    /\ GetRecentLossPercentage(1) = <<200, 3>>
    /\ GetLossPercentage(1) = <<50, 1>>

\* C8: GetSourceLossPercentage(u, c) is the loss formula over the lifetime
\* counters of source c of u alone, and 0 when u is not tracked, c is not
\* a source of u, or the source's denominator is 0.
C8_SourceLossPercentage ==
    \A u \in UniverseIDs, c \in CIDs :
        IF u \in DOMAIN universes /\ c \in DOMAIN universes[u].Sources
            THEN IsLossPercentage(GetSourceLossPercentage(u, c),
                                  universes[u].Sources[c].PacketCount,
                                  universes[u].Sources[c].LostPackets)
            ELSE GetSourceLossPercentage(u, c) = <<0, 1>>

\* C8 witness: source 1 of universe 1 has lost 2 of 4, source 2 nothing,
\* and source 2 is unknown in universe 2.
C8_Witness ==
    /\ 1 \in DOMAIN universes
    /\ DOMAIN universes[1].Sources = {1, 2}
    /\ GetSourceLossPercentage(1, 1) = <<50, 1>>
    /\ GetSourceLossPercentage(1, 2) = <<0, 1>>
    /\ GetLossPercentage(1) = <<40, 1>>
    /\ GetSourceLossPercentage(2, 2) = <<0, 1>>

\* C9: GetPacketRate(u) is the number of packets recorded for u (since u's
\* record was created or last reset), all sources together, that arrived
\* within the last second at query time, divided by 1 second; it is 0 for
\* an untracked universe.  After every record the stored window holds no
\* arrival older than the window.
C9_PacketRate ==
    /\ \A u \in UniverseIDs :
          /\ u \notin DOMAIN universes => GetPacketRate(u) = <<0, 1>>
          /\ GetPacketRate(u) =
                 <<Len(RecordedSince(u, now - rateWindow)), 1>>
    /\ LastIsRecord =>
          \A i \in 1..Len(UniAfter.packetsInWindow) :
              UniAfter.packetsInWindow[i] > UniAfter.LastPacket - rateWindow

\* C9 witness: of two packets of two sources of universe 1, the older one
\* is a full second old and counts no more.
C9_Witness ==
    /\ Len(RecordedFor(1)) = 2
    /\ RecordedFor(1)[1].sourceCID # RecordedFor(1)[2].sourceCID
    /\ RecordedFor(1)[1].at = now - rateWindow
    /\ Len(universes[1].packetsInWindow) = 2
    /\ GetPacketRate(1) = <<1, 1>>

\* C10: after ResetUniverseStats(u) on a tracked universe, u's PacketCount
\* and LostPackets are 0, both windows are empty, every source of u has
\* PacketCount = 0 and LostPackets = 0, the source CIDs and names are those
\* from before, u is still listed, and a second reset changes nothing.
C10_ResetUniverse ==
    /\ (lastOp.op = "ResetUniverseStats" /\ UniverseBefore) =>
          /\ LastU \in GetAllUniverseIDs
          /\ UniAfter.PacketCount = 0 /\ UniAfter.LostPackets = 0
          /\ UniAfter.packetsInWindow = <<>> /\ UniAfter.lossWindow = <<>>
          /\ DOMAIN UniAfter.Sources = DOMAIN before[LastU].Sources
          /\ \A c \in DOMAIN UniAfter.Sources :
                /\ UniAfter.Sources[c].PacketCount = 0
                /\ UniAfter.Sources[c].LostPackets = 0
                /\ UniAfter.Sources[c].CID = before[LastU].Sources[c].CID
                /\ UniAfter.Sources[c].Name = before[LastU].Sources[c].Name
          /\ ResetUniverseStatsOn(universes, LastU) = universes
    /\ \A u \in UniverseIDs :
          ResetUniverseStatsOn(ResetUniverseStatsOn(universes, u), u)
              = ResetUniverseStatsOn(universes, u)

\* C10 witness: universe 1 is reset with two sources, loss counted.
C10_Witness ==
    /\ lastOp.op = "ResetUniverseStats" /\ LastU = 1 /\ UniverseBefore
    /\ DOMAIN before[1].Sources = {1, 2}
    /\ before[1].LostPackets > 0 /\ before[1].PacketCount = 3
    /\ DOMAIN universes[1].Sources = {1, 2}
    /\ universes[1].PacketCount = 0

\* Every query about universe u answers as for a universe never tracked.
AnswersAsUnknown(u) ==
    /\ GetPacketRate(u) = <<0, 1>>
    /\ GetLossPercentage(u) = <<0, 1>>
    /\ GetRecentLossPercentage(u) = <<0, 1>>
    /\ \A c \in CIDs : GetSourceLossPercentage(u, c) = <<0, 1>>
    /\ GetSources(u) = {}
    /\ GetUniverseStats(u) = <<>>

\* The state a RecordPacket call leaves is the one of a first packet of its
\* source and universe.
HandledAsFirstPacket ==
    /\ UniAfter.PacketCount = 1 /\ UniAfter.LostPackets = 0
    /\ Len(UniAfter.lossWindow) = 1 /\ EventAfter.Lost = 0
    /\ DOMAIN UniAfter.Sources = {LastC}
    /\ SrcAfter.PacketCount = 1 /\ SrcAfter.LostPackets = 0
    /\ SrcAfter.LastSequence = lastOp.sequence

\* C11: ResetAllStats leaves GetAllUniverseIDs empty and every
\* per-universe query answering as for an unknown universe; the next packet
\* recorded, also of a source known before the reset, is handled as its
\* source's first packet.
C11_ResetAll ==
    [][/\ lastOp'.op = "ResetAllStats" =>
            /\ GetAllUniverseIDs' = {}
            /\ \A u \in UniverseIDs : AnswersAsUnknown(u)'
       /\ (lastOp.op = "ResetAllStats" /\ lastOp'.op = "RecordPacket") =>
            HandledAsFirstPacket']_vars

\* C11 witness: both universes were tracked, universe 1 with loss, when
\* ResetAllStats was called; none is listed now.
C11_Witness ==
    /\ lastOp.op = "ResetAllStats"
    /\ DOMAIN before = {1, 2}
    /\ before[1].LostPackets > 0
    /\ GetAllUniverseIDs = {}
    /\ AnswersAsUnknown(1) /\ AnswersAsUnknown(2)

\* The recorded calls of universe u that source c made, oldest first.
RecordedBy(u, c) == SelectSeq(RecordedFor(u), LAMBDA r : r.sourceCID = c)

\* The numbers of a sequence of recorded calls are consecutive modulo 256.
Consecutive(run) ==
    \A i \in 1..(Len(run) - 1) :
        run[i + 1].sequence = (run[i].sequence + 1) % 256

\* C12: sequence numbers are tracked per universe and source.  Every source
\* with recorded packets in u is listed by GetSources(u) with the count and
\* the last number of its own packets in u, whatever it sent elsewhere;
\* and while each source's own numbers in u are consecutive, u has no loss
\* and its PacketCount is the number of packets of all its sources.
C12_PerUniversePerSource ==
    \A u \in UniverseIDs :
        LET senders == {c \in CIDs : RecordedBy(u, c) # <<>>} IN
        senders # {} =>
            /\ u \in DOMAIN universes
            /\ senders \subseteq {src.CID : src \in GetSources(u)}
            /\ \A c \in senders :
                  LET own == RecordedBy(u, c) IN
                  /\ c \in DOMAIN universes[u].Sources
                  /\ universes[u].Sources[c].PacketCount = Len(own)
                  /\ universes[u].Sources[c].LastSequence
                         = own[Len(own)].sequence
            /\ (\A c \in senders : Consecutive(RecordedBy(u, c))) =>
                  /\ universes[u].LostPackets = 0
                  /\ \A c \in senders :
                        universes[u].Sources[c].LostPackets = 0
                  /\ universes[u].PacketCount = Len(RecordedFor(u))

\* C12 witness: sources 1 and 2 interleave 255, 0 and 0, 1 on universe 1.
C12_Witness ==
    /\ Len(RecordedFor(1)) = 4
    /\ Len(RecordedBy(1, 1)) = 2 /\ Len(RecordedBy(1, 2)) = 2
    /\ RecordedFor(1)[1].sourceCID # RecordedFor(1)[2].sourceCID
    /\ RecordedFor(1)[2].sourceCID # RecordedFor(1)[3].sourceCID
    /\ RecordedBy(1, 1)[1].sequence = 255
    /\ Consecutive(RecordedBy(1, 1)) /\ Consecutive(RecordedBy(1, 2))
    /\ universes[1].PacketCount = 4 /\ universes[1].LostPackets = 0
    /\ {src.CID : src \in GetSources(1)} = {1, 2}

\* ------------------------------------------------- claims on the universe

LastIsUpdate == mgrOp.op = "Update"
\* The universe the last Update was called on, before and after the call.
UniverseBeforeUpdate == mgrBefore.heap[mgrOp.addr]
UniverseAfterUpdate == heap[mgrOp.addr]
\* The payload of the last Update call.
LastPayload ==
    UpdatesOf(mgrOp.addr)[Len(UpdatesOf(mgrOp.addr))].channelData

\* C14: Universe.Update sets, for every i below the payload's length and
\* below 512, channel i to the payload's byte i with Active = true; every
\* other channel is as it was; no index outside 0..511 is written, also
\* with a payload of more than 512 bytes.
C14_UpdateWritesPayloadOnly ==
    LastIsUpdate =>
        /\ mgrOp.written = {i \in 0..511 : i < Len(LastPayload)}
        /\ DOMAIN UniverseAfterUpdate.Channels = 0..511
        /\ \A i \in 0..511 :
              IF i < Len(LastPayload)
                  THEN /\ UniverseAfterUpdate.Channels[i].Value
                             = LastPayload[i + 1]
                       /\ UniverseAfterUpdate.Channels[i].Active
                  ELSE UniverseAfterUpdate.Channels[i]
                           = UniverseBeforeUpdate.Channels[i]

\* C14 witness: a payload of 513 bytes was written, then one of 1 byte, which
\* left channel 511 as the first had set it.
C14_Witness ==
    /\ LastIsUpdate
    /\ Len(UpdatesOf(mgrOp.addr)) = 2
    /\ Len(UpdatesOf(mgrOp.addr)[1].channelData) = 513
    /\ Len(LastPayload) = 1
    /\ UniverseAfterUpdate.Channels[0].Value = 9
    /\ UniverseAfterUpdate.Channels[511].Active
    /\ UniverseAfterUpdate.Channels[511].Value = (3 + 511) % 256
    /\ UniverseAfterUpdate.Channels[511].LastUpdate < heap[mgrOp.addr].LastPacket

\* The largest of a and b.
Max(a, b) == IF a >= b THEN a ELSE b

\* The largest payload length, capped at 512, among the first k Update
\* calls of a log.
RECURSIVE LargestPayload(_, _)
LargestPayload(log, k) ==
    IF k = 0
        THEN 0
        ELSE Max(LargestPayload(log, k - 1),
                 IF Len(log[k].channelData) > 512
                     THEN 512
                     ELSE Len(log[k].channelData))

\* C15: a channel is inactive until an Update whose payload is longer than
\* its index, and active ever after; ActiveChannelCount never decreases and
\* is the largest payload length, capped at 512, seen so far.
C15_ActiveChannels ==
    /\ \A a \in DOMAIN heap :
          /\ \A i \in 0..511 :
                heap[a].Channels[i].Active
                    <=> \E k \in 1..Len(UpdatesOf(a)) :
                            Len(UpdatesOf(a)[k].channelData) > i
          /\ ActiveChannelCount(heap[a])
                = LargestPayload(UpdatesOf(a), Len(UpdatesOf(a)))
    /\ (LastIsUpdate /\ mgrOp.addr \in DOMAIN mgrBefore.heap) =>
          /\ ActiveChannelCount(UniverseAfterUpdate)
                >= ActiveChannelCount(UniverseBeforeUpdate)
          /\ \A i \in 0..511 :
                UniverseBeforeUpdate.Channels[i].Active
                    => UniverseAfterUpdate.Channels[i].Active

\* C15 witness: after payloads of 2 and then 1 bytes channels 0 and 1 are
\* the active ones.
C15_Witness ==
    /\ LastIsUpdate
    /\ Len(UpdatesOf(mgrOp.addr)) = 2
    /\ Len(UpdatesOf(mgrOp.addr)[1].channelData) = 2
    /\ Len(LastPayload) = 1
    /\ ActiveChannelCount(UniverseAfterUpdate) = 2
    /\ UniverseAfterUpdate.Channels[1].Active
    /\ ~UniverseAfterUpdate.Channels[2].Active

\* The index in a log of the most recent Update whose payload covers channel
\* i, 0 when none does.
RECURSIVE LastCovering(_, _, _)
LastCovering(log, k, i) ==
    IF k = 0
        THEN 0
        ELSE IF Len(log[k].channelData) > i
                 THEN k
                 ELSE LastCovering(log, k - 1, i)

\* C16: after any Updates, of any sources, SourceName, SourceCID, Priority
\* and LastSequence are those of the most recent one, PacketCount is the
\* number of Updates, and each channel holds the byte of the most recent
\* payload that covered it.
C16_LastWriterWins ==
    \A a \in DOMAIN heap :
        LET log == UpdatesOf(a) IN
        /\ heap[a].PacketCount = Len(log)
        /\ log # <<>> =>
              /\ heap[a].SourceName = log[Len(log)].sender.sourceName
              /\ heap[a].SourceCID = log[Len(log)].sender.sourceCID
              /\ heap[a].Priority = log[Len(log)].sender.priority
              /\ heap[a].LastSequence = log[Len(log)].sender.sequence
              /\ heap[a].LastPacket = log[Len(log)].at
        /\ \A i \in 0..511 :
              LET k == LastCovering(log, Len(log), i) IN
              IF k = 0
                  THEN heap[a].Channels[i] = ZeroChannel
                  ELSE /\ heap[a].Channels[i].Value
                             = log[k].channelData[i + 1]
                       /\ heap[a].Channels[i].LastUpdate = log[k].at

\* C16 witness: source "a" sent 2 bytes, then source "b" 1 byte: channel 0
\* holds b's byte, channel 1 still a's, the metadata is b's.
C16_Witness ==
    /\ Len(UpdatesOf(1)) = 2
    /\ UpdatesOf(1)[1].sender.sourceName = "a"
    /\ UpdatesOf(1)[1].channelData = <<7, 8>>
    /\ UpdatesOf(1)[2].sender.sourceName = "b"
    /\ UpdatesOf(1)[2].channelData = <<9>>
    /\ heap[1].SourceName = "b" /\ heap[1].SourceCID = 2
    /\ heap[1].Priority = 200 /\ heap[1].LastSequence = 0
    /\ heap[1].PacketCount = 2
    /\ heap[1].Channels[0].Value = 9 /\ heap[1].Channels[1].Value = 8

\* -------------------------------------------------- claims on the manager

\* The members of a sequence.
Range(seq) == {seq[k] : k \in 1..Len(seq)}

\* The universes of a sequence of addresses are in strictly ascending ID.
AscendingID(seq) ==
    \A k \in 1..(Len(seq) - 1) : heap[seq[k]].ID < heap[seq[k + 1]].ID

\* C18: GetAll returns exactly the universes in the manager's map, each
\* once, in strictly ascending order of ID.
C18_GetAllSorted ==
    /\ Range(GetAll) = {manager[id] : id \in DOMAIN manager}
    /\ Len(GetAll) = Cardinality(DOMAIN manager)
    /\ AscendingID(GetAll)
    /\ \A k \in 1..Len(GetAll) : manager[heap[GetAll[k]].ID] = GetAll[k]

\* C18 witness: universe 2 was created before universe 1, and GetAll lists
\* universe 1 first.
C18_Witness ==
    /\ DOMAIN manager = {1, 2}
    /\ manager[2] < manager[1]
    /\ GetAll = <<manager[1], manager[2]>>

\* The time of the last Update made on the Universe at addr.
LastUpdateAt(addr) == UpdatesOf(addr)[Len(UpdatesOf(addr))].at

\* The registered universes with at least one packet, the last of them no
\* older than timeout when the clock reads `at`.
FreshAt(m, timeout, at) ==
    {id \in DOMAIN m :
        /\ UpdatesOf(m[id]) # <<>>
        /\ at - LastUpdateAt(m[id]) <= timeout}

\* C19: GetActiveUniverses(timeout) returns exactly the registered
\* universes that got a packet, the last one no older than timeout, in
\* ascending order of ID; a universe without packets is never returned.
C19_ActiveUniverses ==
    \A timeout \in Timeouts :
        LET active == GetActiveUniverses(timeout) IN
        /\ Range(active) = {manager[id] : id \in FreshAt(manager, timeout, now)}
        /\ Len(active) = Cardinality(FreshAt(manager, timeout, now))
        /\ AscendingID(active)
        /\ \A k \in 1..Len(active) : heap[active[k]].PacketCount > 0

\* C19 witness: universe 2 got a packet one tick before universe 1, which
\* was created first, did; universe 1 alone is active with timeout 0, both
\* are with timeout 1.
C19_Witness ==
    /\ DOMAIN manager = {1, 2}
    /\ UpdatesOf(manager[1]) # <<>> /\ UpdatesOf(manager[2]) # <<>>
    /\ now - LastUpdateAt(manager[2]) = 1
    /\ now - LastUpdateAt(manager[1]) = 0
    /\ GetActiveUniverses(0) = <<manager[1]>>
    /\ GetActiveUniverses(1) = <<manager[1], manager[2]>>

\* C19 witness of the universe without packets: it is registered and not
\* returned, whatever the timeout.
C19_WitnessNoPacket ==
    /\ DOMAIN manager = {1, 2}
    /\ UpdatesOf(manager[1]) = <<>> /\ UpdatesOf(manager[2]) # <<>>
    /\ GetActiveUniverses(1) = <<manager[2]>>

LastIsPrune == mgrOp.op = "PruneStale"

\* The universes PruneStale found registered that had no packet ever, or
\* the last one older than the call's timeout.
StaleAtPrune ==
    DOMAIN mgrBefore.manager
        \ FreshAt(mgrBefore.manager, mgrOp.timeout, mgrOp.at)

NoRemovalBetween(i, j, id) ==
    \A k \in (i + 1)..(j - 1) :
        ~(history[k].op = "Remove" /\ history[k].id = id)

\* C17: GetOrCreate(id) creates a universe only when id is not in the map
\* and otherwise returns the registered instance; of two GetOrCreate calls
\* for one id with no removal between them, by one thread or by two at a
\* time, the second returns the instance of the first and adds nothing, so
\* that Count grows by exactly 1 when the first created it; Get creates
\* nothing.
C17_GetOrCreateOnce ==
    /\ \A k \in 1..Len(history) :
          LET e == history[k] IN
          /\ e.op = "GetOrCreate" =>
                IF e.id \in DOMAIN e.managerBefore
                    THEN /\ e.result = e.managerBefore[e.id]
                         /\ e.managerAfter = e.managerBefore
                         /\ e.allocatedAfter = e.allocatedBefore
                    ELSE /\ e.result = e.allocatedBefore + 1
                         /\ e.allocatedAfter = e.allocatedBefore + 1
                         /\ e.managerAfter
                               = (e.id :> e.result) @@ e.managerBefore
                         /\ Cardinality(DOMAIN e.managerAfter)
                               = Cardinality(DOMAIN e.managerBefore) + 1
          /\ e.op = "Get" =>
                /\ e.managerAfter = e.managerBefore
                /\ e.allocatedAfter = e.allocatedBefore
                /\ e.result = IF e.id \in DOMAIN e.managerBefore
                                  THEN e.managerBefore[e.id]
                                  ELSE Nil
    /\ \A i \in 1..Len(history), j \in 1..Len(history) :
          (/\ i < j
           /\ history[i].op = "GetOrCreate" /\ history[j].op = "GetOrCreate"
           /\ history[i].id = history[j].id
           /\ NoRemovalBetween(i, j, history[i].id)) =>
              /\ history[j].result = history[i].result
              /\ history[j].managerAfter = history[j].managerBefore
              /\ history[j].allocatedAfter = history[j].allocatedBefore
    /\ \A id \in DOMAIN manager : heap[manager[id]].ID = id

\* C17 witness: thread 2 called GetOrCreate(1) while thread 1 was in its
\* own GetOrCreate(1), which created the universe; both got that instance
\* and Count is 1; a Get of the unknown universe 2 came first and got nil.
C17_Witness ==
    /\ Len(history) = 3
    /\ history[1].op = "Get" /\ history[1].id = 2 /\ history[1].result = Nil
    /\ history[2].op = "GetOrCreate" /\ history[3].op = "GetOrCreate"
    /\ history[2].id = 1 /\ history[3].id = 1
    /\ history[2].thread # history[3].thread
    /\ history[2].concurrent
    /\ history[2].managerBefore = <<>>
    /\ history[3].result = history[2].result
    /\ Count = 1

\* ------------------------------------- claims on the tracker under threads

\* The tracker after the first k calls of a thread's log were made one after
\* the other, on a fresh tracker, for universe u.
RECURSIVE Replay(_, _, _)
Replay(u, log, k) ==
    IF k = 0
        THEN NewTracker
        ELSE RecordPacketOn(Replay(u, log, k - 1), u, log[k].sourceCID,
                            log[k].sourceName, log[k].sequence, now)

\* The counters of universe u in tracker tr: PacketCount and LostPackets of
\* the universe and of each of its sources; <<>> for an untracked universe.
Counters(tr, u) ==
    IF u \notin DOMAIN tr
        THEN <<>>
        ELSE <<tr[u].PacketCount, tr[u].LostPackets,
               [c \in DOMAIN tr[u].Sources |->
                   <<tr[u].Sources[c].PacketCount,
                     tr[u].Sources[c].LostPackets>>]>>

\* C13: when threads call RecordPacket concurrently, each for its own
\* universe, then whenever a thread has returned from its calls the
\* PacketCount, the LostPackets and the per-source counters of its universe
\* are those of its calls made one after the other in the order it issued
\* them.
C13_ConcurrentEqualsSequential ==
    \A t \in Threads :
        pc[t].at = "idle" =>
            Counters(universes, UniverseOf(t))
                = Counters(Replay(UniverseOf(t), issued[t], Len(issued[t])),
                           UniverseOf(t))

\* C13 witness: both threads have returned from two calls each, issued
\* while the other thread was in a call of its own; universe 1 lost the two
\* packets between 0 and 3.
C13_Witness ==
    /\ \A t \in Threads : pc[t].at = "idle" /\ Len(issued[t]) = 2
    /\ issued[1][2].concurrent /\ issued[2][1].concurrent
    /\ issued[2][2].concurrent
    /\ issued[1][1].sequence = 0 /\ issued[1][2].sequence = 3
    /\ issued[1][1].sourceCID = issued[1][2].sourceCID
    /\ universes[1].PacketCount = 2 /\ universes[1].LostPackets = 2
    /\ universes[2].PacketCount = 2

\* ------------------------------------------------------ claims on IsStale

\* C21: a universe that was never updated is stale for every timeout,
\* however large; right after an Update, before the clock has moved, a
\* universe is not stale for any positive timeout.
C21_StaleUntilUpdated ==
    /\ \A a \in DOMAIN heap :
          UpdatesOf(a) = <<>> =>
              \A timeout \in StaleTimeouts : IsStale(heap[a], timeout, now)
    /\ (LastIsUpdate /\ now = mgrOp.at) =>
          \A timeout \in StaleTimeouts :
              timeout > 0 => ~IsStale(heap[mgrOp.addr], timeout, now)

\* C21 witness: universe 1 was created three ticks ago and never updated,
\* universe 2 has just been updated.
C21_Witness ==
    /\ DOMAIN manager = {1, 2}
    /\ UpdatesOf(manager[1]) = <<>>
    /\ now = 3
    /\ IsStale(heap[manager[1]], 1000000 * TicksPerSecond, now)
    /\ LastIsUpdate /\ mgrOp.id = 2 /\ mgrOp.at = now
    /\ ~IsStale(heap[manager[2]], 1, now)

\* -------------------------------------------------------- claims on Parse

\* The error Parse reports for each damaged field.
ErrorOf(field) ==
    CASE field = "preamble" -> "invalid preamble size"
      [] field = "acn" -> "invalid ACN packet identifier"
      [] field = "root" -> "invalid root vector"
      [] field = "framing" -> "invalid framing vector"
      [] field = "dmp" -> "invalid DMP vector"

\* The order in which the fields are checked.
CheckOrder == <<"preamble", "acn", "root", "framing", "dmp">>

\* The first field, in the order of the checks, that is in `corrupted`.
FirstDamaged(corrupted) ==
    CheckOrder[CHOOSE k \in 1..Len(CheckOrder) :
                   /\ CheckOrder[k] \in corrupted
                   /\ \A j \in 1..(k - 1) : CheckOrder[j] \notin corrupted]

\* C28: Parse checks length, preamble, ACN identifier, root vector, framing
\* vector and DMP vector in this order and reports the first failure: a
\* datagram shorter than 126 bytes is "packet too short" whatever it holds,
\* one with several damaged fields gets the error of the earliest, one with
\* none is accepted.
C28_FirstFailingCheck ==
    parsed.called =>
        parsed.err =
            IF datagram.cut < 126 THEN "packet too short"
            ELSE IF datagram.corrupted = {} THEN ""
            ELSE ErrorOf(FirstDamaged(datagram.corrupted))

\* C28 witness: a datagram of full length with the root vector and the DMP
\* vector damaged was refused for its root vector.
C28_Witness ==
    /\ parsed.called
    /\ datagram.cut >= 126
    /\ datagram.corrupted = {"root", "dmp"}
    /\ parsed.err = "invalid root vector" /\ parsed.offset = 18

\* C28 witness of the short datagram: 125 bytes, every field intact.
C28_WitnessShort ==
    /\ parsed.called
    /\ datagram.cut = 125 /\ datagram.corrupted = {}
    /\ parsed.err = "packet too short"

\* C29: an accepted datagram with L bytes after its 126-byte header yields
\* ChannelData of length min(L, 512), equal to the datagram's bytes from
\* offset 126 on; a datagram of exactly 126 bytes yields no channel data; no
\* Packet has more than 512 channel bytes.
C29_ChannelData ==
    (parsed.called /\ parsed.err = "") =>
        LET L == Len(datagram.bytes) - 126
            channelData == parsed.packet.ChannelData
        IN /\ Len(channelData) = IF L < 512 THEN L ELSE 512
           /\ \A k \in 1..Len(channelData) :
                 channelData[k] = datagram.bytes[126 + k]
           /\ L = 0 => channelData = <<>>
           /\ Len(channelData) <= 512

\* C29 witness: a datagram with 513 channel bytes was accepted with 512.
C29_Witness ==
    /\ parsed.called /\ parsed.err = ""
    /\ Len(datagram.bytes) = 126 + 513
    /\ Len(parsed.packet.ChannelData) = 512
    /\ parsed.packet.ChannelData[512] = datagram.bytes[126 + 512]
    /\ parsed.packet.Universe = 258

\* ---------------------------------------------------------------- receiver

\* A packet was decoded and neither queued nor taken: it was discarded.
Discarded ==
    wire.decoded - Len(receiver.packets) - Len(wire.taken)
        - Cardinality({i \in DOMAIN loop : loop[i].at = "offer"})

\* C22: the queue of the receiver never holds more than its capacity of
\* 1000 packets; a packet offered while it is full is discarded, the queued
\* packets and their order stay as they are, and the read loop is never
\* blocked at the offer: it goes on to its next read.
C22_BoundedQueue ==
    /\ [](Len(receiver.packets) <= QueueCapacity)
    /\ [](\A i \in DOMAIN loop : loop[i].at = "offer" => ENABLED LoopOffer(i))
    /\ [][\A i \in DOMAIN loop :
            (/\ loop[i].at = "offer" /\ loop'[i].at # "offer"
             /\ Len(receiver.packets) = QueueCapacity)
                => /\ receiver'.packets = receiver.packets
                   /\ loop'[i].at = "select"]_vars

\* C22 witness: the queue is full, a packet was discarded, and the loop is
\* back at its top.
C22_Witness ==
    /\ Len(receiver.packets) = QueueCapacity
    /\ Discarded > 0
    /\ loop[1].at = "select"

\* Whether a sequence of decode numbers is a subsequence of 1..decoded in
\* decode order: strictly increasing, so nothing twice and nothing reordered.
InDecodeOrder(ids) ==
    /\ \A k \in DOMAIN ids : ids[k] \in 1..wire.decoded
    /\ \A j, k \in DOMAIN ids : j < k => ids[j] < ids[k]

\* The packets taken whose turn at a consumer has come.
DueAtManager ==
    IF ingest.at = "universe"
        THEN SubSeq(wire.taken, 1, Len(wire.taken) - 1) ELSE wire.taken

DueAtTracker ==
    IF ingest.at = "take"
        THEN wire.taken ELSE SubSeq(wire.taken, 1, Len(wire.taken) - 1)

\* C23: the packets applied to the Manager and those applied to the
\* Tracker are each a subsequence of the decoded packets in decode order,
\* none applied twice and none reordered, and every packet taken from the
\* queue is applied to both: once the loop holds a packet it comes back for
\* the next with every packet taken applied to each, in the order taken.
C23_AppliedInDecodeOrder ==
    /\ [](/\ InDecodeOrder(wire.taken)
          /\ wire.toManager = DueAtManager
          /\ wire.toTracker = DueAtTracker)
    /\ (ingest.at = "universe")
          ~> (/\ ingest.at = "take"
              /\ wire.toManager = wire.taken
              /\ wire.toTracker = wire.taken)

\* C23 witness: a packet was discarded before two later ones were decoded,
\* taken and applied to both consumers.
C23_Witness ==
    /\ Len(wire.toTracker) = 2 /\ wire.toManager = wire.toTracker
    /\ ingest.at = "take"
    /\ wire.decoded > Len(receiver.packets) + 2

\* Whether a datagram fails a check of Parse: too short, or a field damaged.
Damaged(dg) == dg.cut < E131HeaderSize \/ dg.corrupted # {}

\* C24: a datagram that fails a decode check is dropped: it never reaches
\* the offer, and the step that parsed it leaves the queue, the universes
\* and the statistics as they were and takes the loop back to its top, from
\* where it reads again.
C24_InvalidDropped ==
    /\ [](\A i \in DOMAIN loop : loop[i].at = "offer" => ~Damaged(datagram))
    /\ [][\A i \in DOMAIN loop :
            (/\ loop[i].at = "parse" /\ loop'[i].at # "parse"
             /\ Damaged(datagram))
                => /\ receiver' = receiver
                   /\ wire' = wire
                   /\ UNCHANGED <<universes, manager, heap>>
                   /\ parsed'.err # ""
                   /\ loop'[i].at = "select"]_vars

\* C24 witness: a datagram with a damaged DMP vector was read after others
\* were queued, and was dropped.
C24_Witness ==
    /\ datagram.corrupted = {"dmp"}
    /\ parsed.called /\ parsed.err = "invalid DMP vector"
    /\ loop[1].at = "select"
    /\ receiver.packets # <<>>

\* C25: Start may not be called twice on the same Receiver: every Start
\* after the first one to look at `started` is refused with "receiver already
\* started", and there is never a second socket or a second read loop,
\* whether the calls race or the receiver was stopped in between.
C25_StartOnce ==
    /\ \A k \in 2..Len(startLog) : startLog[k].refused
    /\ Len(sockets) <= 1
    /\ Len(loop) <= 1

\* C26: once the context is cancelled while the read loop is blocked in
\* its socket read, the socket is eventually closed and the loop eventually
\* returns, whether or not another datagram arrives.  Stated for the reads
\* during which the network could still deliver one.
C26_ShutdownCompletes ==
    (/\ ctxDone
     /\ ReadHere < MaxDatagrams
     /\ \E i \in DOMAIN loop : loop[i].at = "read")
        ~> (/\ \A k \in DOMAIN sockets : sockets[k] = "closed"
            /\ \A i \in DOMAIN loop : loop[i].at = "done")

\* C27: the queries hand out copies only: what a caller reads in a value
\* it got from Get, GetAll, GetActiveUniverses, GetUniverseStats,
\* GetSources, GetChannel, GetAllChannels or GetInfo is, after any later
\* Update or RecordPacket, what it read when it got the value.
C27_CopiesOnly ==
    held.query # "" => <<ReadIn(held.query, held.value[1])>> = held.seen

\* The tracker after the first k calls of a log, made one after the other.
RECURSIVE SerialOutcome(_, _)
SerialOutcome(log, k) ==
    IF k = 0
        THEN NewTracker
        ELSE RecordPacketOn(SerialOutcome(log, k - 1), log[k].universeID,
                            log[k].sourceCID, log[k].sourceName,
                            log[k].sequence, log[k].at)

\* C30: RecordPacket calls made concurrently for the same universe exclude
\* each other on its record: once they have returned, the record (the
\* universe's and the sources' counters, the rate window and the loss
\* window) is the one the same calls leave when made one after the other in
\* the order their bodies started, and PacketCount is the number of calls.
C30_SameUniverseSerial ==
    /\ \A t, o \in Threads :
          (t # o /\ pc[t].at \in {"body", "write", "unlockStats"})
              => pc[o].at \notin {"body", "write", "unlockStats"}
    /\ (\A t \in Threads : pc[t].at = "idle") =>
          /\ Len(history) = calls
          /\ universes = SerialOutcome(history, Len(history))
          /\ calls > 0 => universes[1].PacketCount = calls

\* C30 witness: three calls of the two threads for universe 1 have
\* returned, the second by another thread than the first and made while
\* that was in its call; two packets were lost between 0 and 3, and the rate
\* window has dropped a packet.
C30_Witness ==
    /\ \A t \in Threads : pc[t].at = "idle"
    /\ Len(history) = 3
    /\ history[1].thread # history[2].thread
    /\ \E t \in Threads : \E k \in DOMAIN issued[t] : issued[t][k].concurrent
    /\ universes[1].PacketCount = 3 /\ universes[1].LostPackets = 2
    /\ Len(universes[1].packetsInWindow) < 3

\* ----------------------------------------------------- tracker, continued

\* The sums of the PacketCount and of the LostPackets of the sources S of a
\* source map.
RECURSIVE SumCounts(_, _)
SumCounts(sources, S) ==
    IF S = {}
        THEN 0
        ELSE LET c == CHOOSE x \in S : TRUE
             IN sources[c].PacketCount + SumCounts(sources, S \ {c})

RECURSIVE SumLosses(_, _)
SumLosses(sources, S) ==
    IF S = {}
        THEN 0
        ELSE LET c == CHOOSE x \in S : TRUE
             IN sources[c].LostPackets + SumLosses(sources, S \ {c})

\* C34: in every state of the tracker, whatever RecordPacket,
\* ResetUniverseStats and ResetAllStats calls led to it, the PacketCount of
\* each universe is the sum of the PacketCount of its sources and its
\* LostPackets the sum of their LostPackets.
C34_TotalsAreSums ==
    \A u \in DOMAIN universes :
        /\ universes[u].PacketCount
               = SumCounts(universes[u].Sources, DOMAIN universes[u].Sources)
        /\ universes[u].LostPackets
               = SumLosses(universes[u].Sources, DOMAIN universes[u].Sources)

\* C34 witness: universe 1 was reset and has then counted packets and loss
\* of one of its two sources.
C34_Witness ==
    /\ 1 \in DOMAIN universes
    /\ DOMAIN universes[1].Sources = {1, 2}
    /\ universes[1].Sources[1].PacketCount = 2
    /\ universes[1].Sources[2].PacketCount = 0
    /\ universes[1].PacketCount = 2
    /\ universes[1].LostPackets = 2

\* The last call recorded the first packet since a reset of a source that
\* the universe knew before the reset.
FirstSinceReset ==
    /\ LastIsRecord /\ SourceBefore
    /\ Len(RecordedBy(LastU, LastC)) = 1

\* C35: after ResetUniverseStats(u) the next packet of a source that u
\* knew is counted as the first of that source: whatever its sequence number
\* and whatever LastSequence is still stored, it adds no loss.
C35_FirstAfterReset ==
    FirstSinceReset =>
        /\ before[LastU].Sources[LastC].PacketCount = 0
        /\ SrcAfter.PacketCount = 1
        /\ SrcAfter.LostPackets = 0
        /\ UniAfter.LostPackets = UniLostBefore
        /\ EventAfter.Lost = 0

\* C35 witness: the source's stored LastSequence was 0 and the packet after
\* the reset carries 3, a gap of 2 between counted packets.
C35_Witness ==
    /\ FirstSinceReset
    /\ before[LastU].Sources[LastC].LastSequence = 0
    /\ lastOp.sequence = 3
    /\ SrcAfter.LostPackets = 0 /\ UniAfter.LostPackets = 0
    /\ SrcAfter.LastSequence = 3

\* How far the sequence number of the last call lies behind the last one of
\* its source, modulo 256: 0 for a repetition.
BackBy == ForwardDistance(lastOp.sequence,
                          before[LastU].Sources[LastC].LastSequence)

\* The last call left the lost counters as they were and moved LastSequence
\* to the number received.
Absorbed ==
    /\ SrcAfter.LostPackets = SrcLostBefore
    /\ UniAfter.LostPackets = UniLostBefore
    /\ EventAfter.Lost = 0
    /\ SrcAfter.LastSequence = lastOp.sequence

\* C36 as stated: a packet that repeats the last sequence number of its
\* source or lies up to 56 behind it never increases the lost counters, and
\* LastSequence is moved to its number.
C36_AsStated ==
    (LastIsRecord /\ KnownBefore /\ BackBy <= 56) => Absorbed

\* C36, amended: a packet that repeats the last sequence number of its
\* source or lies up to 55 behind it (forward gap 255 down to 200) never
\* increases the lost counters, and LastSequence is moved to its number;
\* one that lies 56 behind, a forward gap of 199, adds 199 to both.
C36_ReorderAbsorbed ==
    (LastIsRecord /\ KnownBefore) =>
        /\ BackBy <= 55 => (Absorbed /\ LastGap = 255 - BackBy)
        /\ BackBy = 56 =>
              /\ LastGap = 199
              /\ SrcAfter.LostPackets = SrcLostBefore + 199
              /\ UniAfter.LostPackets = UniLostBefore + 199
              /\ SrcAfter.LastSequence = lastOp.sequence

\* C36 witness: 100 then 45, which is 55 behind, has added nothing, and 45
\* is the last number now.
C36_Witness ==
    /\ LastIsRecord /\ KnownBefore
    /\ before[LastU].Sources[LastC].LastSequence = 100
    /\ lastOp.sequence = 45
    /\ Absorbed

\* C36 witness of the repetition: 7 then 7.
C36_WitnessRepeat ==
    /\ LastIsRecord /\ KnownBefore
    /\ before[LastU].Sources[LastC].LastSequence = 7
    /\ lastOp.sequence = 7
    /\ Absorbed

\* C40: RecordPacket(u, cid, ...) changes the record of u only, and in it
\* only source cid besides u's own totals and windows: every other universe
\* keeps its counters, sources and windows, no universe is added or dropped
\* but u, and every other source of u keeps its counters, name and
\* LastSequence.
C40_RecordFrame ==
    LastIsRecord =>
        /\ DOMAIN universes = DOMAIN before \cup {LastU}
        /\ \A u \in DOMAIN before \ {LastU} : universes[u] = before[u]
        /\ UniverseBefore =>
              /\ DOMAIN UniAfter.Sources
                     = DOMAIN before[LastU].Sources \cup {LastC}
              /\ \A c \in DOMAIN before[LastU].Sources \ {LastC} :
                     UniAfter.Sources[c] = before[LastU].Sources[c]

\* C40 witness: source 1 sent to universe 1, where source 2 had lost
\* packets, while universe 2 held a packet in its rate window.
C40_Witness ==
    /\ LastIsRecord /\ LastU = 1 /\ LastC = 1
    /\ 2 \in DOMAIN before /\ before[2].packetsInWindow # <<>>
    /\ UniverseBefore /\ 2 \in DOMAIN before[1].Sources
    /\ before[1].Sources[2].PacketCount > 0
    /\ universes[2] = before[2]
    /\ UniAfter.Sources[2] = before[1].Sources[2]

\* Thread t is in a RecordPacket call for a universe that was registered
\* before the call: it has not reached its own insertion.
OnRegistered(t) ==
    /\ pc[t].at \in {"lockMap", "lookup"}
    /\ pc[t].id \in DOMAIN universes

\* C31: a RecordPacket for a universe that is already registered does not
\* take the exclusive lock of the map Tracker.universes, so two RecordPacket
\* calls for different registered universes never wait for each other: when
\* one of them is at t.mu.Lock(), the other does not keep it from going on.
C31_RegisteredNeverWait ==
    \A t \in Threads : \A o \in Threads \ {t} :
        (/\ OnRegistered(t) /\ pc[t].at = "lockMap"
         /\ OnRegistered(o) /\ pc[o].id # pc[t].id)
            => /\ trackerMu.writer # o
               /\ CanLock(trackerMu)

\* No Start or Stop call is under way.
ReceiverCallsReturned == \A t \in Threads : pc[t].at = "idle"

\* C39: whenever `started` is true and every Start has returned, the
\* receiver holds an open socket and a read loop is running; so a Start
\* whose ListenPacket failed has left `started` false, and the next Start
\* is not refused.
C39_StartedMeansListening ==
    (ReceiverCallsReturned /\ receiver.started) =>
        /\ receiver.rawConn # Nil
        /\ sockets[receiver.rawConn] = "open"
        /\ \E i \in DOMAIN loop : loop[i].at # "done"

\* C32: a read error does not end the read loop unless shutdown was
\* requested, and once Stop has closed the socket the read loop eventually
\* returns instead of retrying the failing read for ever.
C32_StoppedLoopReturns ==
    (\E t \in Threads : pc[t].op = "Stop" /\ pc[t].at = "unlock")
        ~> (\A i \in DOMAIN loop : loop[i].at = "done")

\* C33: the ingestion loop leaves its range over the packet channel once
\* the channel is closed and drained, and after the shutdown of the
\* receiver that is eventually the case: once the read loop has returned
\* and the channel is empty, the ingestion loop eventually ends.
C33_IngestionEnds ==
    (/\ \A i \in DOMAIN loop : loop[i].at = "done"
     /\ receiver.packets = <<>>
     /\ ingest.at = "take")
        ~> (ingest.at = "done")

\* C38: a packet applied by GetOrCreate(id) and then Update is applied to
\* the instance the manager's map holds for id when Update completes, also
\* when PruneStale or Remove were called in between.
C38_AppliedToMappedInstance ==
    mgrOp.op = "Update" =>
        /\ mgrOp.id \in DOMAIN manager
        /\ manager[mgrOp.id] = mgrOp.addr

\* --------------------------------------------------------------- deadlock

\* The mutexes: Manager.mu, Tracker.mu, the mu of the record of a universe
\* ID and the mu of the Universe at an address.
MapMutexes == {<<"manager", 0>>, <<"tracker", 0>>}
EntryMutexes ==
    {<<"stats", u>> : u \in UniverseIDs}
        \cup {<<"universe", a>> : a \in DOMAIN heap}

MutexState(m) ==
    CASE m[1] = "manager" -> managerMu
      [] m[1] = "tracker" -> trackerMu
      [] m[1] = "stats" -> statsMu[m[2]]
      [] m[1] = "universe" -> heap[m[2]].mu

\* Thread t holds mutex m, for writing or for reading.
Holds(t, m) == MutexState(m).writer = t \/ t \in MutexState(m).readers

\* What the statement thread t is at asks for: Lock or RLock of a mutex, or
\* nothing.
Request(t) ==
    LET at == pc[t].at
        ask(mode, m) == [mode |-> mode, mutex |-> m]
    IN
    CASE at \in {"lock", "scanLock"} /\ pc[t].op # "GetActiveUniverses"
             -> ask("Lock", <<"manager", 0>>)
      [] at = "rlock" \/ (at = "scanLock" /\ pc[t].op = "GetActiveUniverses")
             -> ask("RLock", <<"manager", 0>>)
      [] at \in {"lockMap", "tLock"} -> ask("Lock", <<"tracker", 0>>)
      [] at = "tRLock" -> ask("RLock", <<"tracker", 0>>)
      [] at \in {"lockStats", "resetLockStats"}
             -> ask("Lock", <<"stats", pc[t].id>>)
      [] at = "qRLockStats" -> ask("RLock", <<"stats", pc[t].id>>)
      [] at = "uLock" -> ask("Lock", <<"universe", pc[t].id>>)
      [] at = "uRLock" -> ask("RLock", <<"universe", pc[t].id>>)
      [] at = "staleRLock"
             -> ask("RLock", <<"universe", manager[pc[t].id]>>)
      [] OTHER -> ask("none", <<"", 0>>)

\* Thread t is in a call and its next statement can be executed.  An RLock
\* waits for a writer that holds the mutex and, as sync.RWMutex does, for a
\* Lock another thread is waiting in.
CanProceed(t) ==
    LET r == Request(t) IN
    /\ pc[t].at # "idle"
    /\ CASE r.mode = "Lock" -> CanLock(MutexState(r.mutex))
         [] r.mode = "RLock" ->
                /\ CanRLock(MutexState(r.mutex))
                /\ \A o \in Threads \ {t} :
                       ~(Request(o).mode = "Lock"
                           /\ Request(o).mutex = r.mutex)
         [] OTHER -> TRUE

\* C37: no interleaving of RecordPacket, ResetUniverseStats, ResetAllStats
\* and the tracker's queries, nor of GetOrCreate, Get, Update,
\* GetActiveUniverses, PruneStale, Remove and the universe's queries, can
\* deadlock: whenever a call is under way some call under way can execute
\* its next statement, and no thread asks for the lock of a map while it
\* holds the lock of an entry.
C37_NoDeadlock ==
    /\ (\E t \in Threads : pc[t].at # "idle")
           => \E t \in Threads : CanProceed(t)
    /\ \A t \in Threads :
           Request(t).mutex \in MapMutexes
               => \A m \in EntryMutexes : ~Holds(t, m)

\* C37 witness: PruneStale holds Manager.mu and waits for the mutex of a
\* universe that an Update holds, which can go on.
C37_Witness ==
    \E t \in Threads : \E o \in Threads \ {t} :
        /\ pc[t].op = "PruneStale" /\ pc[t].at = "staleRLock"
        /\ managerMu.writer = t
        /\ heap[manager[pc[t].id]].mu.writer = o
        /\ pc[o].op = "Update"
        /\ ~CanProceed(t) /\ CanProceed(o)

\* C37 witness on the tracker: ResetUniverseStats holds Tracker.mu and
\* waits for the mutex of a record that a RecordPacket holds.
C37_WitnessTracker ==
    \E t \in Threads : \E o \in Threads \ {t} :
        /\ pc[t].op = "ResetUniverseStats" /\ pc[t].at = "resetLockStats"
        /\ trackerMu.writer = t
        /\ statsMu[pc[t].id].writer = o
        /\ pc[o].op = "RecordPacket"
        /\ ~CanProceed(t) /\ CanProceed(o)

====
